---- MODULE Spec2Model ----
(***************************************************************************)
(* A model of the cspng decode-and-composite pipeline of PsdConvert:       *)
(*   - ClipFileParser   (src/src/cspng/core/file_parser.py)                *)
(*   - SqliteHandler    (src/src/cspng/core/sqlite_handler.py)             *)
(*   - CspConverter     (src/src/cspng/core/converter.py)                  *)
(*   - ImageProcessor   (src/cspng/core/image_processor.py)                *)
(* and of the worker count of MultiprocessExecutor                         *)
(* (src/src/psdconvert/core/multiprocess_helper.py).                       *)
(*                                                                         *)
(* The specifications share the variables:                                 *)
(*   SpecScan     constructing a CspConverter on a file: validation, the   *)
(*                chunk scan, the exception handlers on the way out;       *)
(*   SpecResolve  the Layer -> Mipmap -> MipmapInfo -> Offscreen lookup;   *)
(*   SpecConvert  loading the layer table and convert_to_png;              *)
(*   SpecDecode   the block of a layer: its sub-blocks, the tile grid and  *)
(*                the planes reconstructed from it;                        *)
(*   SpecBlend    the opacity step and merge_layers_to_canvas on a pixel.  *)
(*   SpecWalk     the walk of get_external_data_from_chunk over the        *)
(*                sub-blocks of a chunk (SpecWalkFair: the walk goes on);  *)
(*   SpecWorkers  _get_optimal_process_count;                              *)
(*   SpecLookup   the chunks _parse_file keeps and the lookup of a block;  *)
(*   SpecThumbnail  the LayerThumbnail record get_layer_data goes by.      *)
(*                                                                         *)
(* A file is modelled by what the scanner reads of it: its length, its     *)
(* 8-byte magic, and the (tag, length) header found at each offset the     *)
(* scan arrives at.  The scan reads every offset at most once, so a header *)
(* chosen when it is read is a header of a file fixed beforehand.          *)
(***************************************************************************)
EXTENDS Integers, Sequences, FiniteSets, TLC

VARIABLES
  pc,                  \* position in the operation being run
  file,                \* the file on disk: [exists, clip_ext, data_size, magic]
  offset,              \* _read_chunk_data: offset
  chunk_data_list,     \* _read_chunk_data: chunk_data_list
  sqlite_binary_data,  \* the database slice [from, to) of the buffer, or NoSlice
  chunk_external_list, \* ClipFileParser.chunk_external_list
  exc,                 \* the exception in flight
  scan_error,          \* what _read_chunk_data raised
  parse_error,         \* what ClipFileParser(...) raised
  init_error,          \* what CspConverter(...) raised
  file_parser,         \* CspConverter.file_parser: "None" or "parser"
  sqlite_handler,      \* CspConverter.sqlite_handler: "None" or "handler"
  db,                  \* the embedded database (its tables)
  tables,              \* the lists SqliteHandler loaded from it
  query,               \* arguments of the operation being run
  result,              \* its return value
  conv                 \* locals of _convert_merged_layers; attempted is the
                       \* record of the calls of get_layer_data

scanVars == <<file, offset, chunk_data_list, sqlite_binary_data,
              chunk_external_list, exc, scan_error, parse_error, init_error,
              file_parser, sqlite_handler>>
metaVars == <<db, tables, query, result, conv>>
vars == <<pc, scanVars, metaVars>>

Null == "NULL"          \* None where a str is expected
NullInt == 0 - 1        \* SQL NULL / None where an int is expected
None == [none |-> TRUE] \* None where a dict, bytes or an image is expected
IsNone(v) == "none" \in DOMAIN v
Unused == "unused"      \* value of a variable a specification does not use

-----------------------------------------------------------------------------
(* Bounds of the model.                                                    *)

MaxData == 90           \* longest file, in bytes
MaxPayload == 2         \* largest chunk length field
MaxId == 2              \* largest MainId of a record of a table
MaxLayers == 2          \* most layers of a database that is converted

-----------------------------------------------------------------------------
(* Exceptions: the class raised and, as its message chain keeps it, the    *)
(* condition that raised it first.                                         *)

NoError == [kind |-> "none", cause |-> "none"]
Error(k, c) == [kind |-> k, cause |-> c]

\* file_parser.py:136-139, the except clauses of _read_chunk_data
ReadChunkDataHandler(e) ==
  IF e.kind \in {"struct.error", "UnicodeDecodeError"}
    THEN Error("InvalidFileError", e.cause)
    ELSE Error("DataProcessingError", e.cause)

\* file_parser.py:62-63, the except clause of _parse_file
ParseFileHandler(e) == Error("DataProcessingError", e.cause)

\* converter.py:48-49, the except clause of _initialize
InitializeHandler(e) == Error("CspngError", e.cause)

-----------------------------------------------------------------------------
(* The container scanner.                                                  *)

MagicLen == 8           \* struct '8s'
ReservedLen == 16       \* "offset += 16"
TagLen == 8             \* struct '8s'
SizeLen == 8            \* struct '>Q'
SqliteSkip == 16        \* "sqlite_chunk_start_position + 16"

Undecodable == "<not utf-8>"
Tags == {"CHNKHead", "CHNKExta", "CHNKSQLi", Undecodable}
Magics == {"CSFCHUNK", "XXXXXXXX", Undecodable}

NoSlice == [from |-> -1, to |-> -1]
\* binary_data[from:] of a buffer of n bytes
SliceFrom(from, n) == [from |-> IF from < n THEN from ELSE n, to |-> n]

Files ==
  {[exists |-> FALSE, clip_ext |-> x, data_size |-> 0, magic |-> "CSFCHUNK"] :
      x \in BOOLEAN}
  \cup
  {[exists |-> TRUE, clip_ext |-> FALSE, data_size |-> 0, magic |-> "CSFCHUNK"]}
  \cup
  {[exists |-> TRUE, clip_ext |-> TRUE, data_size |-> n, magic |-> m] :
      n \in 0..MaxData, m \in Magics}

\* list[1:-2]
DropFirstAndLastTwo(s) ==
  IF Len(s) <= 3 THEN <<>> ELSE SubSeq(s, 2, Len(s) - 2)

\* a scan for the database chunk that goes on after its first match
RECURSIVE LastSqliteStart(_, _)
LastSqliteStart(list, i) ==
  IF i > Len(list) THEN 0
  ELSE LET rest == LastSqliteStart(list, i + 1)
       IN IF rest # 0 THEN rest
          ELSE IF list[i].type = "CHNKSQLi" THEN list[i].chunk_start_position
          ELSE 0

\* file_parser.py:122-126, the first chunk of type CHNKSQLi (0: none)
RECURSIVE FirstSqliteStart(_, _)
FirstSqliteStart(list, i) ==
  IF i > Len(list) THEN 0
  ELSE IF list[i].type = "CHNKSQLi" THEN list[i].chunk_start_position
  ELSE FirstSqliteStart(list, i + 1)

ScanInit ==
  /\ pc = "validate"
  /\ file \in Files
  /\ offset = 0
  /\ chunk_data_list = <<>>
  /\ sqlite_binary_data = NoSlice
  /\ chunk_external_list = <<>>
  /\ exc = NoError
  /\ scan_error = NoError
  /\ parse_error = NoError
  /\ init_error = NoError
  /\ file_parser = "None"
  /\ sqlite_handler = "None"
  /\ db = Unused /\ tables = Unused /\ query = Unused
  /\ result = Unused /\ conv = Unused

\* An exception raised in ClipFileParser.__init__ outside _parse_file
\* reaches _initialize's handler as it is.
RaiseInParser(e) ==
  /\ exc' = e
  /\ parse_error' = e
  /\ pc' = "initialize_except"

\* An exception raised inside the try block of _read_chunk_data.
RaiseInScan(e) ==
  /\ exc' = e
  /\ pc' = "read_except"

\* file_parser.py:37-44
ValidateFile ==
  /\ pc = "validate"
  /\ IF ~file.exists
       THEN RaiseInParser(Error("InvalidFileError", "not_found"))
     ELSE IF ~file.clip_ext
       THEN RaiseInParser(Error("InvalidFileError", "extension"))
     ELSE /\ pc' = "magic"
          /\ UNCHANGED <<exc, parse_error>>
  /\ UNCHANGED <<file, offset, chunk_data_list, sqlite_binary_data,
                 chunk_external_list, scan_error, init_error, file_parser,
                 sqlite_handler, metaVars>>

\* file_parser.py:74-90
ReadMagic ==
  /\ pc = "magic"
  /\ IF file.data_size < MagicLen
       THEN RaiseInScan(Error("struct.error", "short_magic")) /\ UNCHANGED offset
     ELSE IF file.magic = Undecodable
       THEN RaiseInScan(Error("UnicodeDecodeError", "magic_bytes")) /\ UNCHANGED offset
     ELSE IF file.magic # "CSFCHUNK"
       THEN RaiseInScan(Error("InvalidFileError", "bad_magic")) /\ UNCHANGED offset
     ELSE /\ offset' = MagicLen + ReservedLen
          /\ pc' = "chunks"
          /\ UNCHANGED exc
  /\ UNCHANGED <<file, chunk_data_list, sqlite_binary_data, chunk_external_list,
                 scan_error, parse_error, init_error, file_parser,
                 sqlite_handler, metaVars>>

\* file_parser.py:92-119, one iteration of the chunk loop
ReadChunk ==
  /\ pc = "chunks"
  /\ offset < file.data_size
  /\ \/ /\ offset + TagLen > file.data_size
        /\ RaiseInScan(Error("struct.error", "short_tag"))
        /\ UNCHANGED <<offset, chunk_data_list>>
     \/ /\ offset + TagLen <= file.data_size
        /\ RaiseInScan(Error("UnicodeDecodeError", "tag_bytes"))
        /\ UNCHANGED <<offset, chunk_data_list>>
     \/ /\ offset + TagLen <= file.data_size
        /\ offset + TagLen + SizeLen > file.data_size
        /\ RaiseInScan(Error("struct.error", "short_size"))
        /\ UNCHANGED <<offset, chunk_data_list>>
     \/ /\ offset + TagLen + SizeLen <= file.data_size
        /\ \E chunk_type \in Tags \ {Undecodable}, chunk_size \in 0..MaxPayload :
             /\ offset' = offset + TagLen + SizeLen + chunk_size
             /\ chunk_data_list' = Append(chunk_data_list,
                  [type |-> chunk_type,
                   size |-> chunk_size,
                   chunk_start_position |-> offset,
                   chunk_end_position |-> offset + TagLen + SizeLen + chunk_size])
        /\ UNCHANGED <<pc, exc>>
  /\ UNCHANGED <<file, sqlite_binary_data, chunk_external_list, scan_error,
                 parse_error, init_error, file_parser, sqlite_handler, metaVars>>

\* file_parser.py:121-134 and 141, then _parse_file 53-58 and the return of
\* ClipFileParser(...) to converter.py:41
LocateSqlite ==
  /\ pc = "chunks"
  /\ offset >= file.data_size
  /\ LET sqlite_chunk_start_position == FirstSqliteStart(chunk_data_list, 1)
     IN IF sqlite_chunk_start_position = 0
          THEN /\ RaiseInScan(Error("DataProcessingError", "no_sqlite"))
               /\ UNCHANGED <<sqlite_binary_data, chunk_external_list, file_parser>>
          ELSE /\ sqlite_binary_data' =
                    SliceFrom(sqlite_chunk_start_position + SqliteSkip, file.data_size)
               /\ chunk_external_list' = DropFirstAndLastTwo(chunk_data_list)
               /\ file_parser' = "parser"
               /\ pc' = "sqlite"
               /\ UNCHANGED exc
  /\ UNCHANGED <<file, offset, chunk_data_list, scan_error, parse_error,
                 init_error, sqlite_handler, metaVars>>

\* file_parser.py:136-139
ReadChunkDataExcept ==
  /\ pc = "read_except"
  /\ scan_error' = ReadChunkDataHandler(exc)
  /\ exc' = ReadChunkDataHandler(exc)
  /\ pc' = "parse_except"
  /\ UNCHANGED <<file, offset, chunk_data_list, sqlite_binary_data,
                 chunk_external_list, parse_error, init_error, file_parser,
                 sqlite_handler, metaVars>>

\* file_parser.py:62-63
ParseFileExcept ==
  /\ pc = "parse_except"
  /\ parse_error' = ParseFileHandler(exc)
  /\ exc' = ParseFileHandler(exc)
  /\ pc' = "initialize_except"
  /\ UNCHANGED <<file, offset, chunk_data_list, sqlite_binary_data,
                 chunk_external_list, scan_error, init_error, file_parser,
                 sqlite_handler, metaVars>>

\* converter.py:44, SqliteHandler(...) on the slice: it loads, or raises
\* SqliteError (sqlite_handler.py:53-54)
LoadSqlite ==
  /\ pc = "sqlite"
  /\ \/ /\ sqlite_handler' = "handler"
        /\ pc' = "done"
        /\ UNCHANGED exc
     \/ /\ exc' = Error("SqliteError", "sqlite_load")
        /\ pc' = "initialize_except"
        /\ UNCHANGED sqlite_handler
  /\ UNCHANGED <<file, offset, chunk_data_list, sqlite_binary_data,
                 chunk_external_list, scan_error, parse_error, init_error,
                 file_parser, metaVars>>

\* converter.py:48-49
InitializeExcept ==
  /\ pc = "initialize_except"
  /\ init_error' = InitializeHandler(exc)
  /\ exc' = InitializeHandler(exc)
  /\ pc' = "done"
  /\ UNCHANGED <<file, offset, chunk_data_list, sqlite_binary_data,
                 chunk_external_list, scan_error, parse_error, file_parser,
                 sqlite_handler, metaVars>>

ScanNext ==
  \/ ValidateFile
  \/ ReadMagic
  \/ ReadChunk
  \/ LocateSqlite
  \/ ReadChunkDataExcept
  \/ ParseFileExcept
  \/ LoadSqlite
  \/ InitializeExcept

SpecScan == ScanInit /\ [][ScanNext]_vars

-----------------------------------------------------------------------------
(* Properties of the scanner.                                              *)

HeaderEnd == MagicLen + ReservedLen
ChunkHeaderLen == TagLen + SizeLen

\* _read_chunk_data returned (it sets the slice last)
ScanSucceeded == sqlite_binary_data # NoSlice

\* the chunk loop ran to its end on a buffer with the magic
LoopFinished ==
  /\ pc \notin {"validate", "magic", "chunks"}
  /\ file.exists /\ file.clip_ext
  /\ file.data_size >= MagicLen /\ file.magic = "CSFCHUNK"
  /\ offset >= file.data_size

\* the chunks found end exactly where the buffer ends
WellFramed == LoopFinished /\ offset = file.data_size

HasSqliteChunk == \E i \in 1..Len(chunk_data_list) : chunk_data_list[i].type = "CHNKSQLi"

IsFirstSqlite(i) ==
  /\ chunk_data_list[i].type = "CHNKSQLi"
  /\ \A j \in 1..(i - 1) : chunk_data_list[j].type # "CHNKSQLi"

\* C1: for every container that scans successfully the chunk descriptors
\* tile the file: the first starts at 24, each ends at start + 16 + size,
\* each next one starts where the previous ended, and the last ends exactly
\* at the buffer length.
C1_ChunksTileBuffer ==
  ScanSucceeded =>
    /\ Len(chunk_data_list) >= 1
    /\ chunk_data_list[1].chunk_start_position = HeaderEnd
    /\ \A i \in 1..Len(chunk_data_list) :
         /\ chunk_data_list[i].chunk_end_position =
              chunk_data_list[i].chunk_start_position + ChunkHeaderLen
                + chunk_data_list[i].size
         /\ i > 1 => chunk_data_list[i].chunk_start_position =
                       chunk_data_list[i - 1].chunk_end_position
    /\ chunk_data_list[Len(chunk_data_list)].chunk_end_position = file.data_size

\* C2: a chunk whose length field runs past the end of the buffer makes the
\* scan fail with the malformed-container error (InvalidFileError); the scan
\* never completes with a descriptor that ends beyond the buffer.
C2_OverlongChunkIsFatal ==
  (/\ pc \in {"sqlite", "done"}
   /\ \E i \in 1..Len(chunk_data_list) :
        chunk_data_list[i].chunk_end_position > file.data_size)
  => /\ scan_error.kind = "InvalidFileError"
     /\ ~ScanSucceeded

\* C3: a buffer whose first 8 bytes are not CSFCHUNK makes the scan fail
\* with InvalidFileError, the caller of the scan observes that same kind,
\* and no chunk descriptor or database slice is produced.
C3_BadMagicIsInvalidFile ==
  (/\ pc = "done"
   /\ file.exists /\ file.clip_ext
   /\ file.data_size >= MagicLen
   /\ file.magic # "CSFCHUNK")
  => /\ scan_error.kind = "InvalidFileError"
     /\ parse_error.kind = "InvalidFileError"
     /\ chunk_data_list = <<>>
     /\ chunk_external_list = <<>>
     /\ ~ScanSucceeded

\* C4: constructing CspConverter for a path that does not exist, or for a
\* file whose extension is not .clip, raises InvalidFileError to the caller
\* of the constructor and leaves no parser or SQLite handler installed.
C4_InvalidPathRaisesInvalidFile ==
  (pc = "done" /\ (~file.exists \/ ~file.clip_ext))
  => /\ init_error.kind = "InvalidFileError"
     /\ file_parser = "None"
     /\ sqlite_handler = "None"

\* C5: a well-framed container with no CHNKSQLi chunk makes the scan fail
\* with the missing-database error, which aborts the construction (no
\* converter to convert with); with one, the database slice runs from that
\* chunk's start + 16 to the end of the buffer.
C5_DatabaseChunk ==
  /\ (WellFramed /\ ~HasSqliteChunk) =>
        /\ ~ScanSucceeded
        /\ file_parser = "None" /\ sqlite_handler = "None"
        /\ pc # "sqlite"
        /\ exc.cause = "no_sqlite"
        /\ pc \in {"parse_except", "initialize_except", "done"} =>
             scan_error = Error("DataProcessingError", "no_sqlite")
        /\ pc = "done" => /\ init_error.kind # "none"
                          /\ init_error.cause = "no_sqlite"
  /\ (WellFramed /\ HasSqliteChunk) =>
        /\ ScanSucceeded
        /\ scan_error = NoError
        /\ \E i \in 1..Len(chunk_data_list) :
             /\ IsFirstSqlite(i)
             /\ sqlite_binary_data =
                  [from |-> chunk_data_list[i].chunk_start_position + 16,
                   to |-> file.data_size]

\* C5 witnesses: both cases, after the constructor has returned or raised
C5_Witness ==
  /\ pc = "done"
  /\ WellFramed
  /\ Len(chunk_data_list) >= 3
  /\ chunk_data_list[2].type = "CHNKSQLi"
  /\ chunk_data_list[1].type # "CHNKSQLi"
  /\ chunk_data_list[3].type = "CHNKSQLi"
  /\ sqlite_handler = "handler"

-----------------------------------------------------------------------------
(* The metadata resolver: the lists of SqliteHandler and the lookup of a   *)
(* layer's block reference.  A table is the list of its rows in the order  *)
(* the query returned them; MainId is the key of every table.              *)

Absent == [main_id |-> 0]
CanvasIds == {1, 2}
Ids == 1..MaxId
\* the records a reference of record i may name: its own index or the next
RefTargets(i) == {i, (i % MaxId) + 1}

\* the rows of a table, in ascending MainId, from a choice per id
Compact(choice) == SelectSeq([i \in Ids |-> choice[i]], LAMBDA r : r.main_id # 0)

\* sqlite_handler.py:188, BlockData decoded, '' when it is NULL or empty
BlockDataOf(i) == IF i = 1 THEN "" ELSE "extrnlid" \o ToString(i)

ChainLayerRows(i) ==
  {[main_id |-> i, canvas_id |-> c, layer_render_mipmap |-> m] :
     c \in CanvasIds, m \in RefTargets(i)}

LayerChoices ==
  {f \in [Ids -> {Absent} \cup UNION {ChainLayerRows(i) : i \in Ids}] :
     \A i \in Ids : f[i].main_id = 0 \/ f[i] \in ChainLayerRows(i)}

\* In a referenced table every record names the record of its own index
\* (shift 0) or every record the next one (shift 1); the table lacks no
\* record (0), one record (its id) or, as after a failed read, all (-1).
Shifts == {0, 1}
Damages == {-1, 0} \cup Ids
Shifted(i, s) == ((i - 1 + s) % MaxId) + 1
Damaged(rows, d) ==
  SelectSeq(rows, LAMBDA r : d = 0 \/ (d \in Ids /\ r.main_id # d))

MipmapTable(s, d) ==
  Damaged([i \in Ids |-> [main_id |-> i, base_mipmap_info |-> Shifted(i, s)]], d)
MipmapInfoTable(s, d) ==
  Damaged([i \in Ids |-> [main_id |-> i, offscreen |-> Shifted(i, s)]], d)
OffscreenTable(d) ==
  Damaged([i \in Ids |-> [main_id |-> i, block_data |-> BlockDataOf(i)]], d)

\* the index of the first row that passes the test of a lookup loop (0:
\* none), as the for ... if ...: break loops of converter.py find it;
\* hits[k] tells whether row k passes
FirstIndex(hits) ==
  IF \E i \in 1..Len(hits) : hits[i]
    THEN CHOOSE i \in 1..Len(hits) : hits[i] /\ \A j \in 1..(i - 1) : ~hits[j]
    ELSE 0

\* a layer lookup that forgets the canvas
GetExternalIdAnyCanvas(t, canvas_id, layer_id) ==
  LET li == FirstIndex([k \in 1..Len(t.layer_list) |->
                         t.layer_list[k].main_id = layer_id])
  IN IF li = 0 THEN Null
     ELSE
  LET mipmap_id == t.layer_list[li].layer_render_mipmap
      mi == FirstIndex([k \in 1..Len(t.mipmap_list) |->
                         t.mipmap_list[k].main_id = mipmap_id])
  IN IF mi = 0 THEN Null
     ELSE
  LET mipmap_info_id == t.mipmap_list[mi].base_mipmap_info
      ii == FirstIndex([k \in 1..Len(t.mipmap_info_list) |->
                         t.mipmap_info_list[k].main_id = mipmap_info_id])
  IN IF ii = 0 THEN Null
     ELSE
  LET offscreen_id == t.mipmap_info_list[ii].offscreen
      oi == FirstIndex([k \in 1..Len(t.offscreen_list) |->
                         t.offscreen_list[k].main_id = offscreen_id])
  IN IF oi = 0 THEN Null
     ELSE t.offscreen_list[oi].block_data

\* converter.py:125-182, _get_external_id on the lists t of the handler
GetExternalId(t, canvas_id, layer_id) ==
  LET li == FirstIndex([k \in 1..Len(t.layer_list) |->
                         /\ t.layer_list[k].main_id = layer_id
                         /\ t.layer_list[k].canvas_id = canvas_id])
  IN IF li = 0 THEN Null
     ELSE
  LET mipmap_id == t.layer_list[li].layer_render_mipmap
      mi == FirstIndex([k \in 1..Len(t.mipmap_list) |->
                         t.mipmap_list[k].main_id = mipmap_id])
  IN IF mi = 0 THEN Null
     ELSE
  LET mipmap_info_id == t.mipmap_list[mi].base_mipmap_info
      ii == FirstIndex([k \in 1..Len(t.mipmap_info_list) |->
                         t.mipmap_info_list[k].main_id = mipmap_info_id])
  IN IF ii = 0 THEN Null
     ELSE
  LET offscreen_id == t.mipmap_info_list[ii].offscreen
      oi == FirstIndex([k \in 1..Len(t.offscreen_list) |->
                         t.offscreen_list[k].main_id = offscreen_id])
  IN IF oi = 0 THEN Null
     ELSE t.offscreen_list[oi].block_data

ResolveInit ==
  /\ pc = "resolve"
  /\ tables \in {[layer_list |-> Compact(l),
                  mipmap_list |-> MipmapTable(ms, md),
                  mipmap_info_list |-> MipmapInfoTable(is, id),
                  offscreen_list |-> OffscreenTable(od)] :
                   l \in LayerChoices, ms \in Shifts, md \in Damages,
                   is \in Shifts, id \in Damages, od \in Damages}
  /\ query \in [canvas_id : CanvasIds, layer_id : Ids]
  /\ result = Unused
  /\ exc = NoError
  /\ file = Unused /\ offset = Unused /\ chunk_data_list = Unused
  /\ sqlite_binary_data = Unused /\ chunk_external_list = Unused
  /\ scan_error = NoError /\ parse_error = NoError /\ init_error = NoError
  /\ file_parser = "parser" /\ sqlite_handler = "handler"
  /\ db = Unused /\ conv = Unused

\* converter.py:125-182: one call of _get_external_id
ResolveBlockReference ==
  /\ pc = "resolve"
  /\ result' = GetExternalId(tables, query.canvas_id, query.layer_id)
  /\ pc' = "resolved"
  /\ UNCHANGED <<scanVars, db, tables, query, conv>>

ResolveNext == ResolveBlockReference

SpecResolve == ResolveInit /\ [][ResolveNext]_vars

Rows(list) == {list[i] : i \in 1..Len(list)}

\* the four records of the chain of the queried layer, when all exist
Chains ==
  {c \in [layer : Rows(tables.layer_list), mipmap : Rows(tables.mipmap_list),
          info : Rows(tables.mipmap_info_list),
          offscreen : Rows(tables.offscreen_list)] :
     /\ c.layer.main_id = query.layer_id
     /\ c.layer.canvas_id = query.canvas_id
     /\ c.mipmap.main_id = c.layer.layer_render_mipmap
     /\ c.info.main_id = c.mipmap.base_mipmap_info
     /\ c.offscreen.main_id = c.info.offscreen}

\* C6: the block reference of (canvas_id, layer_id) is the block reference
\* of the Offscreen record reached through Layer -> Mipmap (by
\* layer_render_mipmap) -> MipmapInfo (by base_mipmap_info) -> Offscreen (by
\* offscreen) when all four records exist; when the layer or one of the
\* three referenced records is missing the result is None, and no error is
\* raised.
C6_ResolveBlockReference ==
  pc = "resolved" =>
    /\ exc = NoError
    /\ Chains # {} => \E c \in Chains : result = c.offscreen.block_data
    /\ Chains = {} => result = Null

\* C6 witness: a chain through records of different ids resolves
C6_Witness ==
  /\ pc = "resolved"
  /\ \E c \in Chains : /\ c.mipmap.main_id # c.layer.main_id
                       /\ c.offscreen.main_id # c.info.main_id
                       /\ result = c.offscreen.block_data
                       /\ result # ""
  /\ Len(tables.layer_list) = MaxId

-----------------------------------------------------------------------------
(* Loading the database and convert_to_png.                                *)
(*                                                                         *)
(* A database is described by its layers: layer i has MainId i, its own    *)
(* Mipmap, MipmapInfo, Offscreen and LayerThumbnail records (all of id i)  *)
(* and one CHNKExta chunk, unless its fault says otherwise.                *)

TileSide == 256           \* image_processor.py:192-195
PixelSize == 4            \* image_processor.py:189
CanvasWidth == 100
CanvasHeight == 100
LayerHeight == 100
LayerWidths == {100, 300}

LayerTypes == {0, 1, 2}
Opacities == {255, 128, NullInt}
LayerIndexes == {NullInt, 1, 2}
\* what is wrong with a layer's data:
\*   chain     its Mipmap record is missing
\*   thumb     its LayerThumbnail record is missing
\*   nochunk   no chunk carries its block reference
\*   badsize   the compressed-size field of a sub-block is corrupted
\*   badstream the deflate stream of a sub-block does not decompress
\*   gray      the payload is a single-channel one (alpha planes only)
\*   short     the last sub-block is missing
Faults == {"none", "chain", "thumb", "nochunk", "badsize", "badstream", "gray", "short"}
DecodeFailures == {"chain", "nochunk", "badsize", "badstream"}

Profile(t, v, o, x, f, w) ==
  [layer_type |-> t, visible |-> v, opacity |-> o, index |-> x, fault |-> f,
   width |-> w]

\* the layers of a database that has the optional columns
ExtProfiles ==
  {Profile(0, 1, o, x, "none", 100) : o \in Opacities, x \in LayerIndexes}
  \cup {Profile(0, 1, 255, 1, "none", w) : w \in LayerWidths}
  \cup {Profile(0, 1, 255, x, f, 100) : x \in {NullInt, 1}, f \in DecodeFailures}
  \cup {Profile(0, 1, 255, 1, f, 100) : f \in Faults \ (DecodeFailures \cup {"none"})}
  \cup {Profile(t, 1, 255, x, "none", 100) : t \in {1, 2}, x \in {NullInt, 1}}
  \cup {Profile(0, 0, 255, x, "none", 100) : x \in {NullInt, 1}}

\* the layers of a database that lacks them
BasicProfiles ==
  {Profile(0, NullInt, NullInt, NullInt, "none", w) : w \in LayerWidths}
  \cup {Profile(0, NullInt, NullInt, NullInt, f, 100) : f \in Faults}
  \cup {Profile(t, NullInt, NullInt, NullInt, "none", 100) : t \in LayerTypes}

SeqsUpTo(S, n) == UNION {[1..k -> S] : k \in 0..n}

Databases ==
  {[has_ext |-> TRUE, has_canvas |-> TRUE, two_canvases |-> FALSE, layers |-> l] :
      l \in SeqsUpTo(ExtProfiles, MaxLayers)}
  \cup {[has_ext |-> FALSE, has_canvas |-> TRUE, two_canvases |-> FALSE, layers |-> l] :
      l \in SeqsUpTo(BasicProfiles, MaxLayers)}
  \cup {[has_ext |-> e, has_canvas |-> FALSE, two_canvases |-> FALSE, layers |-> l] :
      e \in BOOLEAN, l \in SeqsUpTo({Profile(0, 1, 255, 1, "none", 100)}, MaxLayers)}
  \cup {[has_ext |-> e, has_canvas |-> TRUE, two_canvases |-> TRUE, layers |-> l] :
      e \in BOOLEAN, l \in SeqsUpTo({Profile(0, 1, 255, 1, "none", 100)}, MaxLayers)}

ExtId(i) == "extrnlid" \o ToString(i)

\* the rows of table Layer, in rowid order
LayerRows(d) ==
  [i \in 1..Len(d.layers) |->
     [MainId |-> i, CanvasId |-> 1, LayerRenderMipmap |-> i,
      LayerType |-> d.layers[i].layer_type,
      LayerVisible |-> d.layers[i].visible,
      LayerOpacity |-> d.layers[i].opacity,
      LayerBlendMode |-> IF d.has_ext THEN 0 ELSE NullInt,
      LayerIndex |-> d.layers[i].index]]

\* sqlite_handler.py:67-91
ReadCanvasPreview(d) ==
  IF d.has_canvas
    THEN <<[main_id |-> 1, canvas_id |-> 1, image_width |-> CanvasWidth,
            image_height |-> CanvasHeight]>>
         \o (IF d.two_canvases
               THEN <<[main_id |-> 2, canvas_id |-> 2,
                       image_width |-> CanvasWidth + CanvasWidth,
                       image_height |-> CanvasHeight + TileSide]>>
               ELSE <<>>)
    ELSE <<>>

\* sqlite_handler.py:145-172
ReadLayerThumbnails(d) ==
  SelectSeq([i \in 1..Len(d.layers) |->
               [main_id |-> i, canvas_id |-> 1, layer_id |-> i,
                thumbnail_canvas_width |-> d.layers[i].width,
                thumbnail_canvas_height |-> LayerHeight]],
            LAMBDA r : d.layers[r.main_id].fault # "thumb")

\* sqlite_handler.py:197-219
ReadMipmap(d) ==
  SelectSeq([i \in 1..Len(d.layers) |-> [main_id |-> i, base_mipmap_info |-> i]],
            LAMBDA r : d.layers[r.main_id].fault # "chain")

\* sqlite_handler.py:221-244
ReadMipmapInfo(d) ==
  [i \in 1..Len(d.layers) |-> [main_id |-> i, offscreen |-> i]]

\* sqlite_handler.py:174-195
ReadOffscreen(d) ==
  [i \in 1..Len(d.layers) |-> [main_id |-> i, block_data |-> ExtId(i)]]

\* the ORDER BY key of the first query of _read_layers (sqlite_handler.py:105)
SqlOrderKey(row) == IF row.LayerIndex # NullInt THEN row.LayerIndex ELSE row.MainId

\* the orders in which a query may return rows under ORDER BY key ASC,
\* keys[k] being the key of rows[k]: rows of equal keys come in any order
OrderedBy(rows, keys) ==
  LET n == Len(rows)
      orders == {f \in [1..n -> 1..n] :
                   /\ \A i, j \in 1..n : i # j => f[i] # f[j]
                   /\ \A i \in 1..(n - 1) : keys[f[i]] <= keys[f[i + 1]]}
  IN {[i \in 1..n |-> rows[f[i]]] : f \in orders}

\* a dict whose default for a missing LayerVisible is 0
LayerDictDefaultHidden(row, has_ext) ==
  [main_id |-> row.MainId, canvas_id |-> row.CanvasId,
   layer_render_mipmap |-> row.LayerRenderMipmap, layer_type |-> row.LayerType,
   layer_visible |-> IF has_ext THEN row.LayerVisible ELSE 0,
   layer_opacity |-> IF has_ext THEN row.LayerOpacity ELSE 255,
   layer_blend_mode |-> IF has_ext THEN row.LayerBlendMode ELSE 0,
   layer_index |-> IF has_ext THEN row.LayerIndex ELSE 0]

\* sqlite_handler.py:121-135, the dict of one row of the result
LayerDict(row, has_ext) ==
  [main_id |-> row.MainId, canvas_id |-> row.CanvasId,
   layer_render_mipmap |-> row.LayerRenderMipmap, layer_type |-> row.LayerType,
   layer_visible |-> IF has_ext THEN row.LayerVisible ELSE 1,
   layer_opacity |-> IF has_ext THEN row.LayerOpacity ELSE 255,
   layer_blend_mode |-> IF has_ext THEN row.LayerBlendMode ELSE 0,
   layer_index |-> IF has_ext THEN row.LayerIndex ELSE 0]

\* sqlite_handler.py:93-143, the lists _read_layers may return: the first
\* query when the optional columns exist, else the basic one
ReadLayers(d) ==
  LET rows == LayerRows(d)
      results == IF d.has_ext
                   THEN OrderedBy(rows, [k \in 1..Len(rows) |-> SqlOrderKey(rows[k])])
                   ELSE OrderedBy(rows, [k \in 1..Len(rows) |-> rows[k].MainId])
  IN {[i \in 1..Len(r) |-> LayerDict(r[i], d.has_ext)] : r \in results}

(* The chunks of the file and the decoding of a layer.                     *)

AlphaTileBytes == TileSide * TileSide
TileBytes == TileSide * TileSide * (PixelSize + 1)
\* a tile count that adds a tile to every quotient
TilesAcrossPlusOne(n) == (n \div TileSide) + 1

\* int((n + 255) / 256)
TilesAcross(n) == (n + (TileSide - 1)) \div TileSide

\* the BlockDataBeginChunk sub-blocks of the chunk of layer profile p: one
\* per tile, each an alpha plane followed by a BGRA plane
SubBlocks(p) ==
  LET n == TilesAcross(p.width) * TilesAcross(LayerHeight)
      kept == IF p.fault = "short" THEN n - 1 ELSE n
  IN [k \in 1..kept |->
        [exists_flag |-> 1,
         uncompressed_size |-> IF p.fault = "gray" THEN AlphaTileBytes ELSE TileBytes,
         stream |-> IF k = 1 /\ p.fault = "badsize" THEN "truncated"
                    ELSE IF k = 1 /\ p.fault = "badstream" THEN "corrupt"
                    ELSE "ok"]]

\* the descriptors of the scan of the file of database d, each with what
\* its byte range holds: CHNKHead, one CHNKExta per layer, CHNKSQLi, CHNKFoot
ChunksOf(d) ==
  <<[type |-> "CHNKHead", layer |-> 0, external_id |-> "", blocks |-> <<>>]>>
  \o SelectSeq([i \in 1..Len(d.layers) |->
                  [type |-> "CHNKExta", layer |-> i, external_id |-> ExtId(i),
                   blocks |-> SubBlocks(d.layers[i])]],
               LAMBDA c : d.layers[c.layer].fault # "nochunk")
  \o <<[type |-> "CHNKSQLi", layer |-> 0, external_id |-> "", blocks |-> <<>>],
       [type |-> "CHNKFoot", layer |-> 0, external_id |-> "", blocks |-> <<>>]>>

\* a _process_block_data_chunk that returns no bytes for an absent block
ProcessBlockDataChunkSkipAbsent(b) ==
  IF b.exists_flag > 0
    THEN IF b.stream = "ok" THEN b.uncompressed_size ELSE 0
    ELSE 0

\* image_processor.py:106-153, the number of bytes _process_block_data_chunk
\* returns for one sub-block: zlib.decompress raises on a truncated or
\* corrupt stream and the handler returns bytes()
ProcessBlockDataChunk(b) ==
  IF b.exists_flag > 0
    THEN IF b.stream = "ok" THEN b.uncompressed_size ELSE 0
    ELSE b.uncompressed_size

\* image_processor.py:45-99, the length of external_data after the walk
RECURSIVE ExternalDataLen(_, _)
ExternalDataLen(blocks, k) ==
  IF k > Len(blocks) THEN 0
  ELSE ProcessBlockDataChunk(blocks[k]) + ExternalDataLen(blocks, k + 1)

\* converter.py:195-225, _get_external_data: the length of the block of the
\* first CHNKExta chunk of chunk_external_list that carries external_id
GetExternalData(chunks, external_id) ==
  LET ci == FirstIndex([k \in 1..Len(chunks) |->
                         /\ chunks[k].type = "CHNKExta"
                         /\ chunks[k].external_id = external_id])
  IN IF ci = 0 THEN None
     ELSE [len |-> ExternalDataLen(chunks[ci].blocks, 1)]

\* converter.py:184-193
GetLayerThumbnail(t, canvas_id, layer_id) ==
  LET ti == FirstIndex([k \in 1..Len(t.layer_thumbnail_list) |->
                         /\ t.layer_thumbnail_list[k].main_id = layer_id
                         /\ t.layer_thumbnail_list[k].canvas_id = canvas_id])
  IN IF ti = 0 THEN None ELSE t.layer_thumbnail_list[ti]

Raise(kind) == [raise |-> kind]
IsRaise(v) == "raise" \in DOMAIN v

\* image_processor.py:179-225, convert_external_data_to_image on a block of
\* len bytes: an image, (None, None), or ImageProcessingError
ConvertExternalDataToImage(len, image_width, image_height) ==
  LET blocks_per_row == TilesAcross(image_height)
      blocks_per_column == TilesAcross(image_width)
      padded_width == blocks_per_column * TileSide
      padded_height == blocks_per_row * TileSide
      grayscale_expected_size == padded_width * padded_height
      bgr_expected_size == padded_width * padded_height * (PixelSize + 1)
  IN IF len = grayscale_expected_size THEN Raise("ImageProcessingError")
     ELSE IF len # bgr_expected_size THEN None
     ELSE [width |-> image_width, height |-> image_height, alpha_scale |-> 255]

\* converter.py:121-123, the except clause of get_layer_data
GetLayerDataHandler(e) == None

\* converter.py:70-123, get_layer_data: the BGRA image of a layer, or None
GetLayerData(t, chunks, canvas_id, layer_id) ==
  LET external_id == GetExternalId(t, canvas_id, layer_id)
  IN IF external_id = Null THEN None
     ELSE
  LET layer_thumbnail == GetLayerThumbnail(t, canvas_id, layer_id)
  IN IF IsNone(layer_thumbnail) THEN None
     ELSE
  LET external_data == GetExternalData(chunks, external_id)
  IN IF IsNone(external_data) THEN None
     ELSE
  LET image == ConvertExternalDataToImage(external_data.len,
                 layer_thumbnail.thumbnail_canvas_width,
                 layer_thumbnail.thumbnail_canvas_height)
  IN IF IsRaise(image) THEN GetLayerDataHandler(image) ELSE image

(* convert_to_png.                                                         *)

\* converter.py:266-285, the test of the filter loop
Eligible(layer) ==
  LET is_visible == layer.layer_visible # 0
  IN is_visible /\ layer.layer_type \notin {1, 2}

\* converter.py:288, the key of the sort: every dict of layer_list has the
\* key 'layer_index', so the default of get() is never taken
SortKey(layer) == layer.layer_index

\* list.sort compares every element of a list of two or more with another
\* one, and None < int, int < None and None < None raise TypeError
SortRaises(list) ==
  Len(list) >= 2 /\ \E i \in 1..Len(list) : SortKey(list[i]) = NullInt

\* list.sort(key=...): ascending, stable
StableSort(list) ==
  LET n == Len(list)
      order == CHOOSE f \in [1..n -> 1..n] :
                 /\ \A i, j \in 1..n : i # j => f[i] # f[j]
                 /\ \A i, j \in 1..n : i < j =>
                      \/ SortKey(list[f[i]]) < SortKey(list[f[j]])
                      \/ /\ SortKey(list[f[i]]) = SortKey(list[f[j]])
                         /\ f[i] < f[j]
  IN [i \in 1..n |-> list[order[i]]]

\* except clauses that report the conversion as done
ConvertHandlerReportsSuccess(e) == TRUE

\* converter.py:321-323 and 246-248, the except clauses that end a
\* conversion: the value convert_to_png returns
ConvertHandler(e) == FALSE

NoConv ==
  [merge_layers |-> FALSE, canvas |-> None, visible_layers |-> <<>>,
   sorted |-> FALSE, i |-> 0, attempted |-> <<>>, layers_data |-> <<>>,
   merged |-> FALSE, blended |-> <<>>, saved |-> FALSE, error |-> "none"]

\* the lists of a converter that has no handler: none is ever read
NoTables ==
  [canvas_preview_list |-> <<>>, layer_list |-> <<>>, layer_thumbnail_list |-> <<>>,
   offscreen_list |-> <<>>, mipmap_list |-> <<>>, mipmap_info_list |-> <<>>]

\* the database of a converter that has no handler
NoDatabase ==
  [has_ext |-> TRUE, has_canvas |-> FALSE, two_canvases |-> FALSE, layers |-> <<>>]

\* a converter whose file has been scanned and whose database is about to
\* be loaded, or (test_converter.py:57-66) one made by CspConverter.__new__
\* whose sqlite_handler is None
ConvertInit ==
  /\ \/ /\ pc = "load"
        /\ db \in Databases
        /\ tables = Unused
     \/ /\ pc = "call"
        /\ db = NoDatabase
        /\ tables = NoTables
  /\ chunk_data_list = ChunksOf(db)
  /\ chunk_external_list = DropFirstAndLastTwo(ChunksOf(db))
  /\ query = Unused
  /\ result = Unused
  /\ conv = NoConv
  /\ exc = NoError
  /\ file = Unused /\ offset = Unused /\ sqlite_binary_data = Unused
  /\ scan_error = NoError /\ parse_error = NoError /\ init_error = NoError
  /\ file_parser = "parser" /\ sqlite_handler = "None"

\* sqlite_handler.py:32-54, _parse_sqlite_data on the database of the file
LoadDatabase ==
  /\ pc = "load"
  /\ \E layer_list \in ReadLayers(db) :
       tables' = [canvas_preview_list |-> ReadCanvasPreview(db),
                  layer_list |-> layer_list,
                  layer_thumbnail_list |-> ReadLayerThumbnails(db),
                  offscreen_list |-> ReadOffscreen(db),
                  mipmap_list |-> ReadMipmap(db),
                  mipmap_info_list |-> ReadMipmapInfo(db)]
  /\ sqlite_handler' = "handler"
  /\ pc' = "call"
  /\ UNCHANGED <<file, offset, chunk_data_list, sqlite_binary_data,
                 chunk_external_list, exc, scan_error, parse_error, init_error,
                 file_parser, db, query, result, conv>>

\* the end of a conversion by an exception of class kind
Abort(kind) ==
  /\ result' = ConvertHandler(kind)
  /\ pc' = "done"

\* a single-layer conversion that reports success
ConvertSingleLayerDone == TRUE

\* converter.py:325-328, _convert_single_layer: a warning and False
ConvertSingleLayer == FALSE

\* converter.py:227-248 and 325-328, convert_to_png(output_path, merge_layers)
ConvertToPng ==
  /\ pc = "call"
  /\ \E merge_layers \in BOOLEAN :
       /\ query' = [merge_layers |-> merge_layers]
       /\ IF merge_layers
            THEN /\ conv' = [conv EXCEPT !.merge_layers = TRUE]
                 /\ pc' = "canvas"
                 /\ UNCHANGED result
            ELSE /\ result' = ConvertSingleLayer
                 /\ pc' = "done"
                 /\ UNCHANGED conv
  /\ UNCHANGED <<scanVars, db, tables>>

\* a get_canvas_info that takes the dimensions of the last record
GetCanvasInfoOfLast(handler, t) ==
  IF handler = "None" \/ t.canvas_preview_list = <<>>
    THEN Raise("DataProcessingError")
    ELSE LET canvas_info == t.canvas_preview_list[Len(t.canvas_preview_list)]
         IN [width |-> canvas_info.image_width,
             height |-> canvas_info.image_height,
             canvas_id |-> canvas_info.canvas_id]

\* converter.py:51-61, get_canvas_info of a converter whose sqlite_handler
\* is handler and holds the lists t
GetCanvasInfoOf(handler, t) ==
  IF handler = "None" \/ t.canvas_preview_list = <<>>
    THEN Raise("DataProcessingError")
    ELSE LET canvas_info == t.canvas_preview_list[1]
         IN [width |-> canvas_info.image_width,
             height |-> canvas_info.image_height,
             canvas_id |-> canvas_info.canvas_id]

\* converter.py:254-256, the call of get_canvas_info in
\* _convert_merged_layers
GetCanvasInfo ==
  /\ pc = "canvas"
  /\ LET canvas_info == GetCanvasInfoOf(sqlite_handler, tables)
     IN IF IsRaise(canvas_info)
          THEN /\ conv' = [conv EXCEPT !.error = canvas_info.raise]
               /\ Abort(canvas_info.raise)
          ELSE /\ conv' = [conv EXCEPT !.canvas = canvas_info]
               /\ pc' = "filter"
               /\ UNCHANGED result
  /\ UNCHANGED <<scanVars, db, tables, query>>

\* converter.py:63-68, get_layer_list: the list of the handler itself
GetLayerList(handler, t) ==
  IF handler = "None" THEN Raise("DataProcessingError") ELSE t.layer_list

\* a filter and sort that work on the list get_layer_list returned
LayerListFilteredInPlace(layer_list, visible_layers) == visible_layers

\* converter.py:263-288, the list of the handler after the filter and the
\* sort: visible_layers is a list of its own, append and sort change it alone
LayerListAfterSort(layer_list, visible_layers) == layer_list

\* converter.py:259-290, the filter loop and the sort
FilterAndSort ==
  /\ pc = "filter"
  /\ LET layer_list == GetLayerList(sqlite_handler, tables)
         visible_layers == SelectSeq(layer_list, Eligible)
     IN IF SortRaises(visible_layers)
          THEN /\ conv' = [conv EXCEPT !.visible_layers = visible_layers,
                                       !.error = "TypeError"]
               /\ tables' = [tables EXCEPT !.layer_list =
                               LayerListAfterSort(layer_list, visible_layers)]
               /\ Abort("TypeError")
          ELSE /\ conv' = [conv EXCEPT !.visible_layers = StableSort(visible_layers),
                                       !.sorted = TRUE, !.i = 1]
               /\ tables' = [tables EXCEPT !.layer_list =
                               LayerListAfterSort(layer_list, StableSort(visible_layers))]
               /\ pc' = "layers"
               /\ UNCHANGED result
  /\ UNCHANGED <<scanVars, db, query>>

\* converter.py:292-307, one iteration of the loop over visible_layers
ProcessLayer ==
  /\ pc = "layers"
  /\ conv.i <= Len(conv.visible_layers)
  /\ LET layer == conv.visible_layers[conv.i]
         layer_opacity == layer.layer_opacity
         bgra_image == GetLayerData(tables, chunk_external_list,
                                    layer.canvas_id, layer.main_id)
     IN IF IsRaise(bgra_image)
          THEN /\ conv' = [conv EXCEPT !.error = bgra_image.raise,
                                       !.attempted = Append(@, layer.main_id)]
               /\ Abort(bgra_image.raise)
        ELSE IF ~IsNone(bgra_image) /\ layer_opacity = NullInt
          THEN /\ conv' = [conv EXCEPT !.error = "TypeError",
                                       !.attempted = Append(@, layer.main_id)]
               /\ Abort("TypeError")
        ELSE /\ conv' = [conv EXCEPT
                  !.attempted = Append(@, layer.main_id),
                  !.layers_data = Append(@,
                     [layer_name |-> layer.main_id,
                      bgra_image |->
                        IF ~IsNone(bgra_image) /\ layer_opacity < 255
                          THEN [bgra_image EXCEPT !.alpha_scale = layer_opacity]
                          ELSE bgra_image]),
                  !.i = @ + 1]
             /\ UNCHANGED <<pc, result>>
  /\ UNCHANGED <<scanVars, db, tables, query>>

\* a merge that blends the entries of layers_data last first
BlendOrderTopFirst(layers_data) ==
  LET held == SelectSeq(layers_data, LAMBDA entry : ~IsNone(entry.bgra_image))
  IN [k \in 1..Len(held) |-> held[Len(held) + 1 - k].layer_name]

\* image_processor.py:300-365, the layers merge_layers_to_canvas blends,
\* bottom first: the entries of layers_data that hold an image
BlendOrder(layers_data) ==
  LET held == SelectSeq(layers_data, LAMBDA entry : ~IsNone(entry.bgra_image))
  IN [k \in 1..Len(held) |-> held[k].layer_name]

\* converter.py:309-319, merge_layers_to_canvas and save_image_as_png
\* (image_processor.py:367-381): cv2.imwrite succeeds or does not
MergeAndSave ==
  /\ pc = "layers"
  /\ conv.i > Len(conv.visible_layers)
  /\ \E saved \in BOOLEAN :
       /\ conv' = [conv EXCEPT !.merged = TRUE,
                               !.blended = BlendOrder(conv.layers_data),
                               !.saved = saved]
       /\ result' = saved
  /\ pc' = "done"
  /\ UNCHANGED <<scanVars, db, tables, query>>

ConvertNext ==
  \/ LoadDatabase
  \/ ConvertToPng
  \/ GetCanvasInfo
  \/ FilterAndSort
  \/ ProcessLayer
  \/ MergeAndSave

SpecConvert == ConvertInit /\ [][ConvertNext]_vars

-----------------------------------------------------------------------------
(* Properties of the conversion.                                           *)

LayerIdsOf(d) == 1..Len(d.layers)

\* the layers of the database that are visible and are no group/reference
\* layers (a database without the column LayerVisible hides no layer)
EligibleIds(d) ==
  {i \in LayerIdsOf(d) : /\ d.layers[i].visible # 0
                         /\ d.layers[i].layer_type \notin {1, 2}}

\* the order key of a layer: its LayerIndex when it has one, else its MainId
OrderKeyOf(d, i) ==
  IF d.has_ext /\ d.layers[i].index # NullInt THEN d.layers[i].index ELSE i

Names(layers_data) == [k \in 1..Len(layers_data) |-> layers_data[k].layer_name]
Range(s) == {s[k] : k \in 1..Len(s)}
NoRepeat(s) == \A k, m \in 1..Len(s) : k # m => s[k] # s[m]
Ascending(s) == \A k, m \in 1..Len(s) : k < m => s[k] <= s[m]
\* the order keys of a sequence of layer ids
OrderKeys(d, ids) == [k \in 1..Len(ids) |-> OrderKeyOf(d, ids[k])]

\* a merged conversion of a database with canvas dimensions has ended
MergedRunEnded == pc = "done" /\ conv.merge_layers /\ db.has_canvas

Decodes(layer) ==
  ~IsNone(GetLayerData(tables, chunk_external_list, layer.canvas_id, layer.main_id))

\* C7: the eligible layers are blended in ascending order of their order
\* key (LayerIndex when the layer has one, MainId when it has none), the
\* first being the bottom, for every combination of layers with and without
\* an order key; so exchanging the keys of two layers exchanges which is on
\* top.
C7_BlendInOrderKeyOrder ==
  (/\ MergedRunEnded
   /\ \A i \in EligibleIds(db) : db.has_ext => db.layers[i].opacity # NullInt)
  => /\ conv.merged
     /\ Range(Names(conv.layers_data)) = EligibleIds(db)
     /\ NoRepeat(Names(conv.layers_data))
     /\ Ascending(OrderKeys(db, Names(conv.layers_data)))
     /\ Ascending(OrderKeys(db, conv.blended))
     /\ \A i \in EligibleIds(db) :
          db.layers[i].fault = "none" => i \in Range(conv.blended)

\* C8 as the specification states it: without the optional columns every
\* loaded layer gets visible = true, opacity = 255, blend mode = normal and
\* an order equal to its id.
C8_FallbackOrderIsId ==
  (~db.has_ext /\ pc # "load") =>
    \A k \in 1..Len(tables.layer_list) :
      LET layer == tables.layer_list[k]
      IN /\ layer.layer_visible = 1
         /\ layer.layer_opacity = 255
         /\ layer.layer_blend_mode = 0
         /\ layer.layer_index = layer.main_id

\* C8, amended: without the optional columns every loaded layer gets
\* visible = 1, opacity = 255, blend mode = 0 and the order key 0 (not its
\* id); the list is in ascending MainId and the stable sort keeps it so, so
\* every layer that is no group/reference layer is attempted, none hidden,
\* none attenuated, and the layers are blended in ascending id order.
C8_FallbackDefaults ==
  (~db.has_ext /\ pc # "load") =>
    /\ \A k \in 1..Len(tables.layer_list) :
         LET layer == tables.layer_list[k]
         IN /\ layer.layer_visible = 1
            /\ layer.layer_opacity = 255
            /\ layer.layer_blend_mode = 0
            /\ layer.layer_index = 0
    /\ \A k, m \in 1..Len(tables.layer_list) :
         k < m => tables.layer_list[k].main_id < tables.layer_list[m].main_id
    /\ conv.sorted =>
         conv.visible_layers =
           SelectSeq(tables.layer_list, LAMBDA layer : layer.layer_type \notin {1, 2})
    /\ \A k \in 1..Len(conv.layers_data) :
         ~IsNone(conv.layers_data[k].bgra_image) =>
            conv.layers_data[k].bgra_image.alpha_scale = 255
    /\ MergedRunEnded =>
         /\ conv.merged
         /\ Range(Names(conv.layers_data)) =
              {i \in LayerIdsOf(db) : db.layers[i].layer_type \notin {1, 2}}
         /\ Ascending(Names(conv.layers_data))
         /\ NoRepeat(Names(conv.layers_data))
         /\ Ascending(conv.blended)
         /\ \A i \in LayerIdsOf(db) :
              (db.layers[i].layer_type = 0 /\ db.layers[i].fault = "none")
                => i \in Range(conv.blended)

\* C8 witness: two layers of a database without the optional columns have
\* been composited, the one of the smaller id below
C8_Witness ==
  /\ ~db.has_ext
  /\ pc = "done"
  /\ result = TRUE
  /\ conv.blended = <<1, 2>>
  /\ \A k \in 1..2 : tables.layer_list[k].layer_index = 0

\* the eligible layers that fail in one of the ways C9 names
FailedIds(d) == {i \in EligibleIds(d) : d.layers[i].fault \in DecodeFailures}

\* the eligible layers other than the failed ones, as the filter loop
\* leaves them
OtherLayers ==
  SelectSeq(tables.layer_list,
            LAMBDA layer : Eligible(layer) /\ layer.main_id \notin FailedIds(db))

\* a conversion of the other layers alone aborts
OthersAbort ==
  \/ SortRaises(OtherLayers)
  \/ \E k \in 1..Len(OtherLayers) :
       Decodes(OtherLayers[k]) /\ OtherLayers[k].layer_opacity = NullInt

\* what a conversion of the other layers alone blends, bottom first
OthersBlended ==
  LET decoded == SelectSeq(StableSort(OtherLayers), Decodes)
  IN [k \in 1..Len(decoded) |-> decoded[k].main_id]

\* C9: when an eligible layer fails (broken reference chain, no chunk with
\* its block reference, corrupted compressed-size field, deflate stream that
\* does not decompress) the merged conversion ends as it would with the
\* failed layer absent: it completes, and blends exactly the other layers.
C9_FailedLayerAsIfAbsent ==
  (MergedRunEnded /\ FailedIds(db) # {}) =>
    /\ conv.merged = ~OthersAbort
    /\ conv.merged => conv.blended = OthersBlended

\* C10: a layer whose payload length is padded_width x padded_height makes
\* the whole conversion fail with the unsupported-pixel-format error
\* (ImageProcessingError); the layer is not skipped and no image is made of
\* the other layers.
C10_GrayscaleIsFatal ==
  (/\ MergedRunEnded
   /\ conv.sorted
   /\ conv.error \in {"none", "ImageProcessingError"}
   /\ \E i \in EligibleIds(db) : db.layers[i].fault = "gray")
  => /\ result = FALSE
     /\ ~conv.merged
     /\ conv.error = "ImageProcessingError"

\* exceptions.py:8-47, CspngError and its subclasses
CspngFamily ==
  {"CspngError", "FileNotFoundError", "InvalidFileError", "DataProcessingError",
   "SqliteError", "ImageProcessingError"}

\* canvas dimensions are unavailable to the converter
CanvasUnavailable == sqlite_handler = "None" \/ tables.canvas_preview_list = <<>>

\* C11: when canvas dimensions are unavailable (no handler, or no
\* CanvasPreview record) get_canvas_info raises an error of the CspngError
\* family and a merged conversion fails as a whole: it returns False, no
\* layer is decoded or blended, no image is made; when a record exists
\* get_canvas_info returns width, height and canvas_id of the first one.
C11_CanvasInfo ==
  pc \notin {"load"} =>
    /\ CanvasUnavailable =>
         /\ IsRaise(GetCanvasInfoOf(sqlite_handler, tables))
         /\ GetCanvasInfoOf(sqlite_handler, tables).raise \in CspngFamily
         /\ IsNone(conv.canvas)
         /\ (pc = "done" /\ conv.merge_layers) =>
              /\ result = FALSE
              /\ conv.error \in CspngFamily
              /\ conv.layers_data = <<>>
              /\ ~conv.merged
              /\ conv.blended = <<>>
    /\ ~CanvasUnavailable =>
         LET first == ReadCanvasPreview(db)[1]
         IN /\ GetCanvasInfoOf(sqlite_handler, tables) =
                 [width |-> first.image_width, height |-> first.image_height,
                  canvas_id |-> first.canvas_id]
            /\ pc \in {"filter", "layers"} =>
                 conv.canvas = GetCanvasInfoOf(sqlite_handler, tables)

\* C11 witness: a merged conversion of a database without a CanvasPreview
\* record, whose layer would decode, has ended in failure
C11_Witness ==
  /\ pc = "done"
  /\ conv.merge_layers
  /\ sqlite_handler = "handler"
  /\ tables.canvas_preview_list = <<>>
  /\ Len(tables.layer_list) >= 1
  /\ result = FALSE
  /\ conv.error = "DataProcessingError"

\* C17: a layer that is marked invisible or whose type is 1 or 2 (group,
\* reference) is never decoded or blended; every other layer of the layer
\* list is attempted exactly once in a merged conversion (of a database
\* that has canvas dimensions).
C17_EligibleAttemptedOnce ==
  /\ pc \notin {"load"} =>
       \A i \in Range(conv.attempted) \cup Range(conv.blended)
                \cup Range(Names(conv.layers_data)) :
         /\ db.layers[i].visible # 0
         /\ db.layers[i].layer_type \notin {1, 2}
  /\ MergedRunEnded =>
       /\ Range(conv.attempted) = EligibleIds(db)
       /\ NoRepeat(conv.attempted)

\* the canvas of the conversion: whether merge_layers_to_canvas has made it
\* and the layers it has blended onto it, bottom first
CanvasOf(c) == <<c.merged, c.blended>>

\* the canvas is written in this step
CanvasWritten == CanvasOf(conv') # CanvasOf(conv)

\* the positions of layers_data at which layer i was decoded
DecodedAt(i) == {k \in 1..Len(conv.layers_data) : conv.layers_data[k].layer_name = i}

\* C18: within one conversion the canvas is written only by a single
\* ordered blend pass: no step of the decode loop writes it, it is written
\* once, after every decode has finished, and the pass blends the layers one
\* after another in z-order, bottom first, each of them a layer whose decode
\* has finished and each after every blended layer below it.
C18_SingleOrderedBlendPass ==
  /\ [][CanvasWritten =>
          /\ pc = "layers" /\ pc' = "done"
          /\ conv.i > Len(conv.visible_layers)
          /\ CanvasOf(conv) = <<FALSE, <<>> >>
          /\ conv'.layers_data = conv.layers_data
          /\ conv'.attempted = conv.attempted]_vars
  /\ [](/\ pc \in {"canvas", "filter", "layers"} => CanvasOf(conv) = <<FALSE, <<>> >>
        /\ NoRepeat(conv.blended)
        /\ Ascending(OrderKeys(db, conv.blended))
        /\ \A k \in 1..Len(conv.blended) :
             /\ conv.blended[k] \in Range(conv.attempted)
             /\ DecodedAt(conv.blended[k]) # {}
             /\ \A m \in 1..Len(conv.blended) :
                  k < m => \A a \in DecodedAt(conv.blended[k]),
                              b \in DecodedAt(conv.blended[m]) : a < b)

C18_Witness ==
  /\ pc = "done"
  /\ conv.merged
  /\ Len(conv.blended) = 2
  /\ OrderKeyOf(db, conv.blended[1]) < OrderKeyOf(db, conv.blended[2])
  /\ conv.blended[1] > conv.blended[2]

\* the tables are the ones _parse_sqlite_data read from the database d
LoadedFrom(d, t) ==
  /\ t.layer_list \in ReadLayers(d)
  /\ t = [canvas_preview_list |-> ReadCanvasPreview(d),
          layer_list |-> t.layer_list,
          layer_thumbnail_list |-> ReadLayerThumbnails(d),
          offscreen_list |-> ReadOffscreen(d),
          mipmap_list |-> ReadMipmap(d),
          mipmap_info_list |-> ReadMipmapInfo(d)]

\* C19: after the load no step of the converter changes the tables read
\* from the database: get_layer_list returns every layer record, invisible
\* and group layers too, in the order the load read them, before and after
\* a conversion, and the block reference of every (canvas_id, layer_id) is
\* the same after a step as before it.
C19_SnapshotUnmodified ==
  /\ [][pc # "load" =>
          /\ tables' = tables
          /\ GetLayerList(sqlite_handler', tables') = GetLayerList(sqlite_handler, tables)
          /\ \A c \in CanvasIds, l \in Ids :
               GetExternalId(tables', c, l) = GetExternalId(tables, c, l)]_vars
  /\ []((pc # "load" /\ sqlite_handler # "None") =>
          /\ LoadedFrom(db, tables)
          /\ LET layer_list == GetLayerList(sqlite_handler, tables)
             IN /\ Len(layer_list) = Len(db.layers)
                /\ \A i \in LayerIdsOf(db) :
                     \E k \in 1..Len(layer_list) :
                       /\ layer_list[k].main_id = i
                       /\ layer_list[k].layer_type = db.layers[i].layer_type
                       /\ db.has_ext => layer_list[k].layer_visible = db.layers[i].visible)

C19_Witness ==
  /\ pc = "done"
  /\ conv.merged
  /\ conv.sorted
  /\ Len(conv.visible_layers) = 1
  /\ Len(GetLayerList(sqlite_handler, tables)) = 2
  /\ \E i \in LayerIdsOf(db) : db.layers[i].layer_type \in {1, 2} \/ db.layers[i].visible = 0
  /\ \E c \in CanvasIds, l \in Ids : GetExternalId(tables, c, l) # Null

\* C20: a conversion with merge_layers = False returns failure, decodes no
\* layer and writes no output file.
C20_SingleLayerUnsupported ==
  (pc = "done" /\ ~query.merge_layers) =>
     /\ result = FALSE
     /\ conv.attempted = <<>>
     /\ conv.layers_data = <<>>
     /\ ~conv.merged
     /\ ~conv.saved

C20_Witness ==
  /\ pc = "done"
  /\ ~query.merge_layers
  /\ db.has_canvas
  /\ \E k \in 1..Len(tables.layer_list) :
       Eligible(tables.layer_list[k]) /\ Decodes(tables.layer_list[k])

-----------------------------------------------------------------------------
(* Decoding the block of a layer and reconstructing its planes             *)
(* (get_layer_data on one CHNKExta chunk).                                 *)
(*                                                                         *)
(* A byte of external_data is named by where it comes from: byte `at` of   *)
(* the uncompressed payload of sub-block `blk`, or a zero byte that        *)
(* bytes(n) made.  A plane is read pixel by pixel.                         *)

MaxBlocks == 5          \* most BlockDataBeginChunk sub-blocks of a chunk

ZeroByte == [blk |-> 0, at |-> 0]
PayloadByte(k, i) == [blk |-> k, at |-> i]
NoByte == [blk |-> 0 - 1, at |-> 0 - 1]   \* past the end of the data

\* the sub-blocks a chunk is made of
BlockKinds ==
  {[exists_flag |-> e, uncompressed_size |-> u, stream |-> "ok"] :
      e \in {0, 1}, u \in {TileBytes, AlphaTileBytes}}
  \cup {[exists_flag |-> 1, uncompressed_size |-> TileBytes, stream |-> "corrupt"]}

\* chunks of n sub-blocks of one kind, but for at most one of them
BlockLists ==
  {[k \in 1..n |-> IF k = odd_at THEN odd ELSE base] :
      n \in 0..MaxBlocks, odd_at \in 0..MaxBlocks, base \in BlockKinds, odd \in BlockKinds}

ImageWidths == {1, 100, 256, 257, 300, 512, 513}
ImageHeights == {1, 100, 256, 257}
SampleCoords == {0, 1, 99, 255, 256, 299, 512}

\* image_processor.py:81-83 and 106-153, what sub-block k adds to
\* external_data: its inflated payload, or bytes(uncompressed_size), or
\* bytes() when zlib.decompress raised
BlockSegment(b, k) ==
  [len |-> ProcessBlockDataChunk(b), src |-> IF b.exists_flag > 0 THEN k ELSE 0]

\* image_processor.py:45-99, external_data after the walk over the chunk
GetExternalDataFromChunk(blocks) ==
  [segments |-> [k \in 1..Len(blocks) |-> BlockSegment(blocks[k], k)]]

\* len(external_data)
RECURSIVE DataLen(_, _)
DataLen(data, k) ==
  IF k > Len(data) THEN 0 ELSE data[k].len + DataLen(data, k + 1)

\* external_data[addr], looked for from segment k on
RECURSIVE ByteAt(_, _, _)
ByteAt(data, k, addr) ==
  IF k > Len(data) THEN NoByte
  ELSE IF addr < data[k].len
    THEN IF data[k].src = 0 THEN ZeroByte ELSE PayloadByte(data[k].src, addr)
    ELSE ByteAt(data, k + 1, addr - data[k].len)

\* image_processor.py:244-260 and 276-297: pixel (y, x) of a stitched
\* bitmap lies in the tile of block_y = y / 256, block_x = x / 256, whose
\* block_index is block_y * blocks_per_column + block_x
BlockIndexAt(image_width, y, x) ==
  (y \div TileSide) * TilesAcross(image_width) + (x \div TileSide)

\* an alpha plane stored column by column inside a tile
AlphaAddressColumnMajor(image_width, y, x) ==
  BlockIndexAt(image_width, y, x) * TileBytes
    + (x % TileSide) * TileSide + (y % TileSide)

\* image_processor.py:246-257, the address in external_data of alpha pixel
\* (y, x): block[0:block_size].reshape(256, 256)
AlphaAddress(image_width, y, x) ==
  BlockIndexAt(image_width, y, x) * TileBytes
    + (y % TileSide) * TileSide + (x % TileSide)

\* image_processor.py:246-260, the address of channel c of BGRA pixel
\* (y, x): block[block_size:].reshape(256, 256, 4)
BgraAddress(image_width, y, x, c) ==
  BlockIndexAt(image_width, y, x) * TileBytes + AlphaTileBytes
    + ((y % TileSide) * TileSide + (x % TileSide)) * PixelSize + c

\* image_processor.py:263 and 219-220, alpha_image[y, x]
AlphaImageAt(data, image_width, y, x) ==
  ByteAt(data, 1, AlphaAddress(image_width, y, x))

\* image_processor.py:266-267 and 217-218, bgr_image[y, x]: np.delete
\* takes channel 3 out of the stitched BGRA bitmap
BgrImageAt(data, image_width, y, x) ==
  [c \in 0..2 |-> ByteAt(data, 1, BgraAddress(image_width, y, x, c))]

\* converter.py:111-114, bgra_image[y, x]: bgr_image with alpha_image as
\* its fourth channel
BgraImageAt(data, image_width, y, x) ==
  [c \in 0..3 |-> IF c < 3 THEN BgrImageAt(data, image_width, y, x)[c]
                  ELSE AlphaImageAt(data, image_width, y, x)]

NoDecode ==
  [external_data |-> None, blocks_per_row |-> 0, blocks_per_column |-> 0,
   padded_width |-> 0, padded_height |-> 0, image |-> None, pixel |-> None]

DecodeInit ==
  /\ pc = "decode"
  /\ db \in BlockLists
  /\ query \in [image_width : ImageWidths, image_height : ImageHeights]
  /\ conv = NoDecode
  /\ result = Unused
  /\ tables = Unused
  /\ chunk_data_list = Unused /\ chunk_external_list = Unused
  /\ exc = NoError
  /\ file = Unused /\ offset = Unused /\ sqlite_binary_data = Unused
  /\ scan_error = NoError /\ parse_error = NoError /\ init_error = NoError
  /\ file_parser = "parser" /\ sqlite_handler = "handler"

\* image_processor.py:21-103, get_external_data_from_chunk
Decode ==
  /\ pc = "decode"
  /\ conv' = [conv EXCEPT !.external_data = GetExternalDataFromChunk(db)]
  /\ pc' = "reconstruct"
  /\ UNCHANGED <<scanVars, db, tables, query, result>>

\* image_processor.py:179-225, convert_external_data_to_image, with the
\* except clause of get_layer_data (converter.py:121-123) around it
Reconstruct ==
  /\ pc = "reconstruct"
  /\ LET image == ConvertExternalDataToImage(DataLen(conv.external_data.segments, 1),
                                             query.image_width, query.image_height)
     IN /\ conv' = [conv EXCEPT
               !.blocks_per_row = TilesAcross(query.image_height),
               !.blocks_per_column = TilesAcross(query.image_width),
               !.padded_width = TilesAcross(query.image_width) * TileSide,
               !.padded_height = TilesAcross(query.image_height) * TileSide,
               !.image = image]
        /\ IF IsRaise(image) \/ IsNone(image)
             THEN /\ result' = IF IsRaise(image) THEN GetLayerDataHandler(image)
                                ELSE None
                  /\ pc' = "done"
             ELSE /\ pc' = "read"
                  /\ UNCHANGED result
  /\ UNCHANGED <<scanVars, db, tables, query>>

\* reading one pixel of the planes get_layer_data returns
ReadPixel ==
  /\ pc = "read"
  /\ \E y \in SampleCoords, x \in SampleCoords :
       /\ y < conv.image.height
       /\ x < conv.image.width
       /\ conv' = [conv EXCEPT !.pixel =
            [y |-> y, x |-> x,
             alpha |-> AlphaImageAt(conv.external_data.segments, query.image_width, y, x),
             bgr |-> BgrImageAt(conv.external_data.segments, query.image_width, y, x),
             bgra |-> BgraImageAt(conv.external_data.segments, query.image_width, y, x)]]
  /\ result' = conv.image
  /\ pc' = "done"
  /\ UNCHANGED <<scanVars, db, tables, query>>

DecodeNext ==
  \/ Decode
  \/ Reconstruct
  \/ ReadPixel

SpecDecode == DecodeInit /\ [][DecodeNext]_vars

-----------------------------------------------------------------------------
(* Properties of decoding and reconstruction.                              *)

\* the sum of the uncompressed_size fields of the sub-blocks from k on
RECURSIVE DeclaredLen(_, _)
DeclaredLen(blocks, k) ==
  IF k > Len(blocks) THEN 0 ELSE blocks[k].uncompressed_size + DeclaredLen(blocks, k + 1)

\* the offset in external_data of what sub-block k added
SegmentStart(data, k) == DataLen(data, 1) - DataLen(data, k)

\* every sub-block of the chunk is an absent one
AllAbsent == Len(db) >= 1 /\ \A k \in 1..Len(db) : db[k].exists_flag = 0

\* the payload length reconstruction takes for the dimensions of the query
ExpectedLen ==
  (TilesAcross(query.image_width) * TileSide)
    * (TilesAcross(query.image_height) * TileSide) * (PixelSize + 1)

\* C12: a sub-block whose exists_flag is 0 adds exactly uncompressed_size
\* zero bytes to the decoded block and is no error; a layer all of whose
\* sub-blocks are absent (and declare the length of the layer's planes)
\* reconstructs to planes that are zero at every pixel.
C12_AbsentBlockIsZeros ==
  pc # "decode" =>
    /\ ~IsNone(conv.external_data)
    /\ \A k \in 1..Len(db) :
         db[k].exists_flag = 0 =>
           LET data == conv.external_data.segments
               start == SegmentStart(data, k)
               n == db[k].uncompressed_size
           IN /\ data[k].len = n
              /\ SegmentStart(data, k + 1) = start + n
              /\ \A j \in {0, n \div 2, n - 1} :
                   ByteAt(data, 1, start + j) = ZeroByte
    /\ (AllAbsent /\ DeclaredLen(db, 1) = ExpectedLen /\ pc \in {"read", "done"}) =>
         /\ ~IsNone(conv.image)
         /\ ~IsRaise(conv.image)
         /\ conv.image.width = query.image_width
         /\ conv.image.height = query.image_height
         /\ pc = "done" =>
              /\ result = conv.image
              /\ conv.pixel.alpha = ZeroByte
              /\ \A c \in 0..2 : conv.pixel.bgr[c] = ZeroByte

\* C12 witness: a pixel of the second tile of a layer of two absent
\* sub-blocks has been read
C12_Witness ==
  /\ pc = "done"
  /\ AllAbsent
  /\ Len(db) = 2
  /\ ~IsNone(conv.pixel)
  /\ conv.pixel.x >= TileSide
  /\ conv.pixel.alpha = ZeroByte

\* the planes of the query's dimensions have been reconstructed
Reconstructed == pc \in {"read", "done"} /\ ~IsNone(conv.image) /\ ~IsRaise(conv.image)

\* r = ceil(n / 256)
IsCeilOfTiles(r, n) == (r - 1) * 256 < n /\ n <= r * 256

\* C13: reconstruction uses a grid of ceil(height/256) rows by
\* ceil(width/256) columns of 256x256 tiles, takes exactly the payload
\* length padded_width x padded_height x 5, and returns planes of height x
\* width pixels that are the top-left region of the padded bitmaps: pixel
\* (y, x) is the pixel (y mod 256, x mod 256) of the tile of row y div 256
\* and column x div 256, tiles being stored row-major with a stride of
\* 256 x 320 x 4 bytes; 300 x 100 gives 2 columns by 1 row, 512 x 256.
C13_TileGridAndCrop ==
  pc \in {"read", "done"} =>
    LET w == query.image_width
        h == query.image_height
        data == conv.external_data.segments
    IN /\ IsCeilOfTiles(conv.blocks_per_row, h)
       /\ IsCeilOfTiles(conv.blocks_per_column, w)
       /\ conv.padded_width = conv.blocks_per_column * 256
       /\ conv.padded_height = conv.blocks_per_row * 256
       /\ Reconstructed <=>
            DataLen(data, 1) = conv.padded_width * conv.padded_height * 5
       /\ Reconstructed =>
            /\ conv.image.width = w
            /\ conv.image.height = h
       /\ (w = 300 /\ h = 100) =>
            /\ conv.blocks_per_column = 2
            /\ conv.blocks_per_row = 1
            /\ conv.padded_width = 512
            /\ conv.padded_height = 256
       /\ (pc = "done" /\ Reconstructed) =>
            LET y == conv.pixel.y
                x == conv.pixel.x
                tile == (y \div 256) * conv.blocks_per_column + (x \div 256)
                inside == (y % 256) * 256 + (x % 256)
                base == tile * (256 * 320 * 4)
            IN /\ y < h /\ x < w
               /\ conv.pixel.alpha = ByteAt(data, 1, base + inside)
               /\ \A c \in 0..2 :
                    conv.pixel.bgr[c] = ByteAt(data, 1, base + 256 * 256 + inside * 4 + c)
               /\ conv.pixel.alpha # NoByte
               /\ \A c \in 0..2 : conv.pixel.bgr[c] # NoByte

\* C13 witness: pixel (99, 299) of a layer of 300 x 100, in the second of
\* its two tiles, has been read
C13_Witness ==
  /\ pc = "done"
  /\ Reconstructed
  /\ query.image_width = 300 /\ query.image_height = 100
  /\ conv.pixel.y = 99 /\ conv.pixel.x = 299
  /\ conv.pixel.alpha = PayloadByte(2, 99 * 256 + (299 - 256))

\* the chunk holds one sub-block, the deflated payload P of one tile, and
\* the layer is one tile large
SingleTile ==
  /\ Len(db) = 1
  /\ db[1] = [exists_flag |-> 1, uncompressed_size |-> TileBytes, stream |-> "ok"]
  /\ query.image_width <= TileSide
  /\ query.image_height <= TileSide

\* the components of the pixel that was read, as get_layer_data returns
\* them in its planes
PixelBytes ==
  {conv.pixel.alpha} \cup {conv.pixel.bgr[c] : c \in 0..2}
    \cup {conv.pixel.bgra[c] : c \in 0..3}

\* C14 as the specification states it: decoding returns exactly P, and
\* reconstruction maps the alpha part and the BGRA part of P to the pixels
\* in row-major order so that no payload byte is lost, reordered or
\* altered: the alpha byte and the four BGRA bytes of a pixel are all
\* found in that pixel of the planes.
C14_NoPayloadByteLost ==
  (SingleTile /\ pc = "done") =>
    /\ conv.external_data.segments = <<[len |-> TileBytes, src |-> 1]>>
    /\ Reconstructed
    /\ LET i == conv.pixel.y * 256 + conv.pixel.x
       IN /\ PayloadByte(1, i) \in PixelBytes
          /\ \A c \in 0..3 : PayloadByte(1, 256 * 256 + i * 4 + c) \in PixelBytes

\* C14, amended: decoding returns exactly P; byte i of the alpha part of P
\* is alpha pixel (i div 256, i mod 256); bytes 4i, 4i+1, 4i+2 of the BGRA
\* part are the B, G, R of colour pixel (i div 256, i mod 256); byte 4i+3
\* of the BGRA part is dropped (the fourth channel of the BGRA image
\* returned is the alpha plane), as are the pixels outside width x height;
\* no byte that is kept is reordered or altered.
C14_RoundTrip ==
  (SingleTile /\ pc \in {"reconstruct", "read", "done"}) =>
    /\ conv.external_data.segments = <<[len |-> TileBytes, src |-> 1]>>
    /\ \A j \in {0, 1, AlphaTileBytes, TileBytes - 1} :
         ByteAt(conv.external_data.segments, 1, j) = PayloadByte(1, j)
    /\ pc \in {"read", "done"} => Reconstructed
    /\ pc = "done" =>
         LET i == conv.pixel.y * 256 + conv.pixel.x
         IN /\ conv.pixel.y < query.image_height
            /\ conv.pixel.x < query.image_width
            /\ conv.pixel.alpha = PayloadByte(1, i)
            /\ \A c \in 0..2 :
                 conv.pixel.bgr[c] = PayloadByte(1, 256 * 256 + i * 4 + c)
            /\ \A c \in 0..2 : conv.pixel.bgra[c] = conv.pixel.bgr[c]
            /\ conv.pixel.bgra[3] = conv.pixel.alpha
            /\ PayloadByte(1, 256 * 256 + i * 4 + 3) \notin PixelBytes

\* C14 witness: the last pixel of a layer of 256 x 256 made of one deflated
\* tile has been read
C14_Witness ==
  /\ SingleTile
  /\ pc = "done"
  /\ query.image_width = TileSide /\ query.image_height = TileSide
  /\ conv.pixel.y = TileSide - 1 /\ conv.pixel.x = TileSide - 1
  /\ conv.pixel.bgr[2] = PayloadByte(1, TileBytes - 2)

-----------------------------------------------------------------------------
(* Blending decoded layers onto the canvas: the opacity step of            *)
(* _convert_merged_layers and merge_layers_to_canvas.                      *)
(*                                                                         *)
(* A decoded layer is uniform: one colour (B, G, R) and one stored alpha   *)
(* at every pixel.  The canvas is followed at three pixels: its first, its *)
(* centre and its last.                                                    *)

MaxStack == 2           \* most layers of a stack that is blended

FullAlpha == 255        \* converter.py:303-304, image_processor.py:337

Colours == {<<0, 0, 255>>, <<255, 0, 0>>, <<131, 3, 254>>}
StoredAlphas == {0, 128, 255}
StackOpacities == {255, 128}

\* (height, width) of a decoded layer: the canvas size, or a quarter of it
LayerShapes ==
  {<<CanvasHeight, CanvasWidth>>, <<CanvasHeight \div 2, CanvasWidth \div 2>>,
   <<CanvasHeight + CanvasHeight, CanvasWidth \div 2>>}

\* what the layer loop has of a layer before the opacity step: the image
\* get_layer_data returned (None when it failed) and LayerOpacity
StackLayers ==
  {[image |-> [colour |-> c, alpha |-> a, shape |-> z], opacity |-> o] :
      c \in Colours, a \in StoredAlphas, z \in LayerShapes, o \in StackOpacities}
  \cup {[image |-> None, opacity |-> 255]}

\* pixels (y, x) of the canvas that are followed
CanvasPixels ==
  {<<0, 0>>, <<CanvasHeight \div 2, CanvasWidth \div 2>>,
   <<CanvasHeight - 1, CanvasWidth - 1>>}

Max(a, b) == IF a >= b THEN a ELSE b
Min(a, b) == IF a <= b THEN a ELSE b

\* converter.py:303-305, the alpha channel after the opacity step:
\* (alpha * (layer_opacity / 255.0)).astype(np.uint8).  On the alphas and
\* opacities of this model the double product truncates to the exact
\* quotient.
ScaleAlpha(alpha, layer_opacity) ==
  IF layer_opacity < FullAlpha
    THEN (alpha * layer_opacity) \div FullAlpha
    ELSE alpha

\* a blend that weighs the canvas by the layer's alpha
BlendChannelSwapped(a, layer_c, canvas_c) ==
  ((FullAlpha - a) * layer_c + a * canvas_c) \div FullAlpha

\* image_processor.py:337-344, one channel of one pixel:
\* alpha * layer + (1 - alpha) * canvas in doubles with alpha = a / 255.0,
\* stored into a uint8 array (truncated).  For a in {0, 64, 128, 255}, the
\* alphas this model blends with, the double result truncates to the exact
\* quotient for every layer and canvas value.
BlendChannel(a, layer_c, canvas_c) ==
  (a * layer_c + (FullAlpha - a) * canvas_c) \div FullAlpha

\* a placement at the top-left corner of the canvas
PlacementAtCorner(shape, canvas_height, canvas_width) ==
  LET layer_height == shape[1]
      layer_width == shape[2]
      end_y == Min(canvas_height, layer_height)
      end_x == Min(canvas_width, layer_width)
  IN [start_y |-> 0, start_x |-> 0, end_y |-> end_y, end_x |-> end_x,
      copy_height |-> end_y, copy_width |-> end_x]

\* image_processor.py:320-334, where a layer of shape is put: canvas_region
\* is merged_canvas[start_y:end_y, start_x:end_x] and layer_region is
\* bgra_image[:copy_height, :copy_width]
Placement(shape, canvas_height, canvas_width) ==
  LET layer_height == shape[1]
      layer_width == shape[2]
      start_y == Max(0, (canvas_height - layer_height) \div 2)
      start_x == Max(0, (canvas_width - layer_width) \div 2)
      end_y == Min(canvas_height, start_y + layer_height)
      end_x == Min(canvas_width, start_x + layer_width)
  IN [start_y |-> start_y, start_x |-> start_x, end_y |-> end_y, end_x |-> end_x,
      copy_height |-> end_y - start_y, copy_width |-> end_x - start_x]

\* image_processor.py:320-334, whether the region the layer is copied to
\* holds canvas pixel p
Covers(shape, canvas_height, canvas_width, p) ==
  LET at == Placement(shape, canvas_height, canvas_width)
  IN /\ at.start_y <= p[1] /\ p[1] < at.end_y
     /\ at.start_x <= p[2] /\ p[2] < at.end_x

\* image_processor.py:336-350, canvas pixel px after the blend of a pixel
\* of colour and alpha
BlendPixel(px, colour, alpha) ==
  [bgr |-> [c \in 1..3 |-> BlendChannel(alpha, colour[c], px.bgr[c])],
   a |-> Max(px.a, alpha)]

\* image_processor.py:310, np.zeros((canvas_height, canvas_width, 4))
BlankCanvas == [p \in CanvasPixels |-> [bgr |-> <<0, 0, 0>>, a |-> 0]]

\* an image that keeps the four channels of the canvas
ImageShapeWithAlpha(canvas_shape) == canvas_shape

\* image_processor.py:362, the shape of merged_canvas[:, :, :3]
ImageShape(canvas_shape) == <<canvas_shape[1], canvas_shape[2], Min(canvas_shape[3], 3)>>

NoBlend ==
  [i |-> 1, layers_data |-> <<>>, merged_canvas |-> None, k |-> 0,
   before |-> None, processed_count |-> 0, canvas_shape |-> <<>>,
   image_shape |-> <<>>, placement |-> None]

BlendInit ==
  /\ pc = "opacity"
  /\ db \in SeqsUpTo(StackLayers, MaxStack)
  /\ query = [canvas_width |-> CanvasWidth, canvas_height |-> CanvasHeight]
  /\ conv = NoBlend
  /\ result = Unused
  /\ tables = Unused
  /\ chunk_data_list = Unused /\ chunk_external_list = Unused
  /\ exc = NoError
  /\ file = Unused /\ offset = Unused /\ sqlite_binary_data = Unused
  /\ scan_error = NoError /\ parse_error = NoError /\ init_error = NoError
  /\ file_parser = "parser" /\ sqlite_handler = "handler"

\* converter.py:296-307, the opacity step of one iteration of the layer
\* loop and the append to layers_data
ApplyOpacity ==
  /\ pc = "opacity"
  /\ conv.i <= Len(db)
  /\ LET layer == db[conv.i]
         bgra_image ==
           IF ~IsNone(layer.image) /\ layer.opacity < FullAlpha
             THEN [layer.image EXCEPT !.alpha = ScaleAlpha(@, layer.opacity)]
             ELSE layer.image
     IN conv' = [conv EXCEPT
                   !.layers_data = Append(@, [layer_name |-> conv.i,
                                              bgra_image |-> bgra_image]),
                   !.i = @ + 1]
  /\ UNCHANGED <<pc, scanVars, db, tables, query, result>>

\* converter.py:309-312 and image_processor.py:306-311, the call of
\* merge_layers_to_canvas: a blank canvas
StartMerge ==
  /\ pc = "opacity"
  /\ conv.i > Len(db)
  /\ conv' = [conv EXCEPT
         !.merged_canvas = BlankCanvas,
         !.canvas_shape = <<query.canvas_height, query.canvas_width, PixelSize>>,
         !.k = 1]
  /\ pc' = "blend"
  /\ UNCHANGED <<scanVars, db, tables, query, result>>

\* image_processor.py:313-357, one iteration of the loop over layers_data
BlendLayer ==
  /\ pc = "blend"
  /\ conv.k <= Len(conv.layers_data)
  /\ LET bgra_image == conv.layers_data[conv.k].bgra_image
     IN IF IsNone(bgra_image)
          THEN conv' = [conv EXCEPT !.k = @ + 1, !.before = conv.merged_canvas,
                                    !.placement = None]
          ELSE conv' = [conv EXCEPT
                 !.merged_canvas =
                    [p \in CanvasPixels |->
                       IF Covers(bgra_image.shape, query.canvas_height,
                                 query.canvas_width, p)
                         THEN BlendPixel(@[p], bgra_image.colour, bgra_image.alpha)
                         ELSE @[p]],
                 !.before = conv.merged_canvas,
                 !.placement = Placement(bgra_image.shape, query.canvas_height,
                                         query.canvas_width),
                 !.processed_count = @ + 1,
                 !.k = @ + 1]
  /\ UNCHANGED <<pc, scanVars, db, tables, query, result>>

\* image_processor.py:359-362, return merged_canvas[:, :, :3]
Finalize ==
  /\ pc = "blend"
  /\ conv.k > Len(conv.layers_data)
  /\ result' = [p \in CanvasPixels |-> conv.merged_canvas[p].bgr]
  /\ conv' = [conv EXCEPT !.image_shape = ImageShape(conv.canvas_shape)]
  /\ pc' = "done"
  /\ UNCHANGED <<scanVars, db, tables, query>>

BlendNext ==
  \/ ApplyOpacity
  \/ StartMerge
  \/ BlendLayer
  \/ Finalize

SpecBlend == BlendInit /\ [][BlendNext]_vars

-----------------------------------------------------------------------------
(* Properties of blending.                                                 *)

\* the stack is one layer, fully opaque, of the canvas size
SingleOpaqueLayer ==
  /\ Len(db) = 1
  /\ ~IsNone(db[1].image)
  /\ db[1].image.alpha = 255
  /\ db[1].opacity = 255
  /\ db[1].image.shape = <<query.canvas_height, query.canvas_width>>

\* the loop of merge_layers_to_canvas has blended layer n
BlendedLayer(n) == (pc = "blend" /\ conv.k = n + 1) \/ (pc = "done" /\ Len(db) = n)

\* C15: compositing a single layer that is fully opaque (alpha 255 at
\* every pixel, opacity 255) and has the canvas size onto a blank canvas
\* gives a canvas whose colour channels are the layer's colour at every
\* pixel and whose alpha channel is the layer's alpha channel.
C15_SingleOpaqueLayer ==
  (SingleOpaqueLayer /\ BlendedLayer(1)) =>
    /\ \A p \in CanvasPixels :
         /\ conv.merged_canvas[p].bgr = db[1].image.colour
         /\ conv.merged_canvas[p].a = db[1].image.alpha
    /\ pc = "done" => \A p \in CanvasPixels : result[p] = db[1].image.colour

\* C15 witness: a single opaque layer of the canvas size and of colour
\* (131, 3, 254) has been composited and the image returned
C15_Witness ==
  /\ SingleOpaqueLayer
  /\ pc = "done"
  /\ db[1].image.colour = <<131, 3, 254>>
  /\ conv.processed_count = 1
  /\ \A p \in CanvasPixels : result[p] = <<131, 3, 254>>

\* v is the real number num / den rounded down or up
IsRounded(v, num, den) == num - den < v * den /\ v * den < num + den

\* C16: for every blended layer and pixel, the new canvas colour in each
\* of B, G, R is a * layer + (1 - a) * canvas (as an 8-bit value: rounded
\* down or up) with a = (stored alpha / 255) x (opacity / 255), the opacity
\* applied once, and the new canvas alpha is the maximum of the previous
\* canvas alpha and the layer's alpha channel (stored, or as blended); a
\* fully opaque red layer beneath a half-opacity blue layer of the same
\* area gives the blend of blue over red by that formula, canvas alpha 255.
C16_BlendFormula ==
  /\ (pc = "blend" /\ conv.k >= 2 /\ ~IsNone(db[conv.k - 1].image)) =>
       LET layer == db[conv.k - 1]
           weight == layer.image.alpha * layer.opacity
       IN \A p \in CanvasPixels :
            Covers(layer.image.shape, query.canvas_height, query.canvas_width, p) =>
              /\ \A c \in 1..3 :
                   IsRounded(conv.merged_canvas[p].bgr[c],
                             weight * layer.image.colour[c]
                               + (255 * 255 - weight) * conv.before[p].bgr[c],
                             255 * 255)
              /\ conv.merged_canvas[p].a \in
                   {Max(conv.before[p].a, layer.image.alpha),
                    Max(conv.before[p].a,
                        conv.layers_data[conv.k - 1].bgra_image.alpha)}
  /\ (/\ pc = "done"
      /\ Len(db) = 2
      /\ db[1] = [image |-> [colour |-> <<0, 0, 255>>, alpha |-> 255,
                              shape |-> <<CanvasHeight, CanvasWidth>>],
                   opacity |-> 255]
      /\ db[2] = [image |-> [colour |-> <<255, 0, 0>>, alpha |-> 255,
                              shape |-> <<CanvasHeight, CanvasWidth>>],
                   opacity |-> 128]) =>
       \A p \in CanvasPixels :
         /\ result[p] = <<128, 0, 127>>
         /\ conv.merged_canvas[p].a = 255

\* C25: the image merged compositing returns has exactly canvas_height x
\* canvas_width x 3 elements, whatever the number, the sizes and the
\* failures of the layers; the canvas starts as zeros, so that the image is
\* zero everywhere when no layer was blended.
C25_ImageShape ==
  /\ pc = "blend" /\ conv.k = 1 =>
       \A p \in CanvasPixels : conv.merged_canvas[p] = [bgr |-> <<0, 0, 0>>, a |-> 0]
  /\ pc = "done" =>
       /\ conv.image_shape = <<query.canvas_height, query.canvas_width, 3>>
       /\ conv.image_shape[1] * conv.image_shape[2] * conv.image_shape[3]
            = query.canvas_height * query.canvas_width * 3
       /\ DOMAIN result = CanvasPixels
       /\ \A p \in CanvasPixels : Len(result[p]) = 3
       /\ conv.processed_count = 0 =>
            \A p \in CanvasPixels : result[p] = <<0, 0, 0>>

C25_Witness ==
  /\ pc = "done"
  /\ Len(db) = 2
  /\ IsNone(db[1].image)
  /\ db[2].image.shape[1] > query.canvas_height
  /\ conv.processed_count = 1
  /\ conv.image_shape = <<CanvasHeight, CanvasWidth, 3>>

-----------------------------------------------------------------------------
(* The walk of get_external_data_from_chunk over the sub-blocks of a       *)
(* chunk.                                                                  *)
(*                                                                         *)
(* A chunk is the sequence of the sub-blocks written into it.  A sub-block *)
(* is given by the fields the walker reads of it and by the bytes it       *)
(* really takes in the file.  Offsets count from the first sub-block.  As  *)
(* long as the walker arrives where a sub-block begins it reads that       *)
(* sub-block; where it arrives inside one it reads bytes that were not     *)
(* written as size fields, which may read as any sub-block.  The offset    *)
(* only grows, so no offset is read twice.                                 *)

MaxSubBlocks == 3       \* most sub-blocks written into a chunk

Marker == 4325484       \* 0x0042006C, the UTF-16-BE bytes of "Bl"
FieldLen == 4           \* a '>L' field
NameLimit == 256        \* names of 256 code units and more are not read
FlagOffset == 16        \* block index, uncompressed size, width, height
AbsentLen == 20         \* the five fields of an absent block
PresentLen == 24        \* the five fields and block_len
StatusLen == 24         \* the six fields of BlockStatus / BlockCheckSum

BlockNames ==
  {"BlockDataBeginChunk", "BlockDataEndChunk", "BlockStatus", "BlockCheckSum",
   "Attribute"}

\* the length of a name in UTF-16 code units
NameUnits(name) ==
  CASE name = "BlockDataBeginChunk" -> 19
    [] name = "BlockDataEndChunk" -> 17
    [] name = "BlockStatus" -> 11
    [] name = "BlockCheckSum" -> 13
    [] name = "Attribute" -> 9
    [] OTHER -> NameLimit

\* a sub-block as it lies in the file: the two size fields, the name, the
\* fields of a BlockDataBeginChunk body, the length stream_len of its
\* deflate stream and the padding pad written after the stream
SubBlock(s1, s2, name, u, e, a, b, n, p, z) ==
  [size_01 |-> s1, size_02 |-> s2, name |-> name, uncompressed_size |-> u,
   exists_flag |-> e, block_len |-> a, block_len_2 |-> b, stream_len |-> n,
   pad |-> p, stream |-> z]

\* a sub-block in the framing whose first field is the name length
Named(name, u, e, a, b, n, p, z) ==
  SubBlock(NameUnits(name), Marker, name, u, e, a, b, n, p, z)

\* a sub-block in the framing of payload length and name length
Sized(name, len, u, e, a, b, n, p, z) ==
  SubBlock(len, NameUnits(name), name, u, e, a, b, n, p, z)

\* sub-blocks whose fields agree with the bytes written
SoundSubBlocks ==
  {Named("BlockDataBeginChunk", 5, 1, 7, 3, 3, 0, "ok"),
   Named("BlockDataBeginChunk", 5, 1, 7, 3, 3, 0, "corrupt"),
   Named("BlockDataBeginChunk", 5, 0, 0, 0, 0, 0, "ok"),
   Sized("BlockDataBeginChunk", 31, 5, 1, 7, 3, 3, 0, "ok"),
   Named("BlockStatus", 0, 0, 0, 0, 0, 0, "ok"),
   Named("BlockCheckSum", 0, 0, 0, 0, 0, 0, "ok"),
   Named("BlockDataEndChunk", 0, 0, 0, 0, 0, 0, "ok"),
   Sized("Attribute", 6, 0, 0, 0, 0, 0, 0, "ok"),
   Sized("Attribute", 0, 0, 0, 0, 0, 0, 0, "ok")}

\* BlockDataBeginChunk sub-blocks whose block_len_2 is not block_len - 4:
\* padding after the stream, a block_len that is too large, a block_len_2
\* that is too small or too large for the stream
MismatchedSubBlocks ==
  {Named("BlockDataBeginChunk", 5, 1, 11, 3, 3, 4, "ok"),
   Named("BlockDataBeginChunk", 5, 1, 11, 3, 3, 0, "ok"),
   Named("BlockDataBeginChunk", 5, 1, 7, 2, 3, 0, "ok"),
   Named("BlockDataBeginChunk", 5, 1, 7, 4, 3, 0, "ok")}

WrittenSubBlocks == SoundSubBlocks \cup MismatchedSubBlocks

\* what bytes that were not written as size fields may read as
StrayReadings ==
  {Named("BlockDataBeginChunk", 5, 1, 7, 3, 3, 0, "ok"),
   Named("BlockStatus", 0, 0, 0, 0, 0, 0, "ok"),
   Sized("<toobig>", 2, 0, 0, 0, 0, 0, 0, "ok")}

Chunks == UNION {[1..n -> WrittenSubBlocks] : n \in 0..MaxSubBlocks}

IsNamed(sb) == sb.size_02 = Marker

\* the bytes a sub-block takes in the file
Extent(sb) ==
  LET head == IF IsNamed(sb) THEN FieldLen + 2 * sb.size_01
              ELSE 2 * FieldLen + 2 * sb.size_02
      body == IF sb.name = "BlockDataBeginChunk"
                THEN IF sb.exists_flag > 0
                       THEN PresentLen + FieldLen + sb.stream_len + sb.pad
                       ELSE AbsentLen
              ELSE IF sb.name \in {"BlockStatus", "BlockCheckSum"} THEN StatusLen
              ELSE IF IsNamed(sb) THEN 0 ELSE sb.size_01
  IN head + body

\* where sub-block k of the chunk begins; k = Len + 1 gives the chunk's end
RECURSIVE StartOf(_, _)
StartOf(chunk, k) ==
  IF k <= 1 THEN 0 ELSE StartOf(chunk, k - 1) + Extent(chunk[k - 1])

\* the sub-block that begins at offset at, 0 when none does
SubBlockAt(chunk, at) ==
  LET hits == {k \in 1..Len(chunk) : StartOf(chunk, k) = at}
  IN IF hits = {} THEN 0 ELSE CHOOSE k \in hits : \A m \in hits : k <= m

\* image_processor.py:58-64, the name length the two size fields give
BlockNameLen(size_01, size_02) == IF size_02 = Marker THEN size_01 ELSE size_02

\* image_processor.py:58-64, the payload length they give
BlockDataLen(size_01, size_02) == IF size_02 = Marker THEN 0 ELSE size_01

\* image_processor.py:51-61, where the name begins in a sub-block that
\* begins at block_start_position
NameOffset(block_start_position, size_02) ==
  IF size_02 = Marker THEN block_start_position + FieldLen
  ELSE block_start_position + 2 * FieldLen

\* a name of as many bytes as it has code units
NameBytesUndoubled(block_name_len) == block_name_len

\* image_processor.py:68-74, the bytes of a name of block_name_len units
NameBytes(block_name_len) == block_name_len * 2

\* image_processor.py:67-71, the name read
BlockNameOf(sb) ==
  IF BlockNameLen(sb.size_01, sb.size_02) < NameLimit THEN sb.name ELSE "<toobig>"

\* image_processor.py:50-71, struct.unpack_from raises when the two size
\* fields or the name reach past the end of binary_data
ReadFails(at, sb, data_size) ==
  \/ at + 2 * FieldLen > data_size
  \/ /\ BlockNameLen(sb.size_01, sb.size_02) < NameLimit
     /\ NameOffset(at, sb.size_02) + NameBytes(BlockNameLen(sb.size_01, sb.size_02))
          > data_size

\* an end position that is the first size field of the sub-block
GetBlockEndPositionAtSizes(sb, at, block_start_position, data_size) ==
  block_start_position - NameBytes(BlockNameLen(sb.size_01, sb.size_02))
    - (IF sb.size_02 = Marker THEN FieldLen ELSE 2 * FieldLen)

\* image_processor.py:156-176, _get_block_end_position; a field past the end
\* of binary_data makes it return block_start_position
GetBlockEndPosition(sb, at, block_start_position, data_size) ==
  IF at + FlagOffset + FieldLen > data_size THEN block_start_position
  ELSE IF sb.exists_flag > 0
    THEN IF at + FlagOffset + 2 * FieldLen > data_size THEN block_start_position
         ELSE block_start_position + PresentLen + sb.block_len
  ELSE block_start_position + AbsentLen

\* image_processor.py:140-141, the stream zlib.decompress is given: the
\* block_len_2 bytes after the size fields, as far as binary_data reaches; a
\* stream cut short does not decompress, bytes after its end are ignored
StreamGiven(sb, at, data_size) ==
  IF \/ sb.block_len_2 < sb.stream_len
     \/ at + PresentLen + FieldLen + sb.stream_len > data_size
    THEN "corrupt"
    ELSE sb.stream

\* image_processor.py:106-153 on the sub-block read at offset at: the bytes
\* it returns, bytes() when a field lies past the end of binary_data
BlockDataAt(sb, at, data_size) ==
  IF \/ at + FlagOffset + FieldLen > data_size
     \/ sb.exists_flag > 0 /\ at + PresentLen + FieldLen > data_size
    THEN 0
    ELSE ProcessBlockDataChunk([sb EXCEPT !.stream = StreamGiven(sb, at, data_size)])

NoWalk ==
  [external_data |-> <<>>, visited |-> <<>>, reading |-> None,
   block_start |-> 0, name_offset |-> 0, block_name |-> "",
   block_name_len |-> 0, block_data_len |-> 0,
   block_start_position |-> 0, block_end_position |-> 0]

\* the bytes of the file after the chunk
Slacks == {0, 64}

WalkInit ==
  /\ pc = "walk"
  /\ db \in Chunks
  /\ \E slack \in Slacks :
       query = [chunk_end_position |-> StartOf(db, Len(db) + 1),
                data_size |-> StartOf(db, Len(db) + 1) + slack]
  /\ offset = 0
  /\ conv = NoWalk
  /\ result = Unused
  /\ tables = Unused
  /\ chunk_data_list = Unused /\ chunk_external_list = Unused
  /\ exc = NoError
  /\ file = Unused /\ sqlite_binary_data = Unused
  /\ scan_error = NoError /\ parse_error = NoError /\ init_error = NoError
  /\ file_parser = "parser" /\ sqlite_handler = "handler"

\* what the walker may read at offset at
ReadingsAt(chunk, at) ==
  IF SubBlockAt(chunk, at) # 0 THEN {chunk[SubBlockAt(chunk, at)]} ELSE StrayReadings

WalkFrame ==
  UNCHANGED <<file, chunk_data_list, sqlite_binary_data, chunk_external_list,
              exc, scan_error, parse_error, init_error, file_parser,
              sqlite_handler, db, tables, query>>

\* image_processor.py:46-97, one iteration of the loop
WalkStep ==
  /\ pc = "walk"
  /\ offset < query.chunk_end_position
  /\ \E sb \in ReadingsAt(db, offset) :
       /\ ~ReadFails(offset, sb, query.data_size)
       /\ LET k == SubBlockAt(db, offset)
              block_name_len == BlockNameLen(sb.size_01, sb.size_02)
              block_data_len == BlockDataLen(sb.size_01, sb.size_02)
              name_offset == NameOffset(offset, sb.size_02)
              block_name == BlockNameOf(sb)
              block_start_position == name_offset + NameBytes(block_name_len)
              block_end_position ==
                IF block_name = "BlockDataBeginChunk"
                  THEN GetBlockEndPosition(sb, block_start_position,
                                           block_start_position, query.data_size)
                ELSE IF block_name \in {"BlockStatus", "BlockCheckSum"}
                  THEN block_start_position + StatusLen
                ELSE block_start_position + block_data_len
              added ==
                IF block_name = "BlockDataBeginChunk"
                  THEN <<[len |-> BlockDataAt(sb, block_start_position, query.data_size),
                          src |-> IF sb.exists_flag = 0 THEN 0
                                  ELSE IF k # 0 THEN k ELSE 0 - 1]>>
                  ELSE <<>>
          IN /\ conv' = [external_data |-> conv.external_data \o added,
                         visited |-> Append(conv.visited, k),
                         reading |-> sb,
                         block_start |-> offset,
                         name_offset |-> name_offset,
                         block_name |-> block_name,
                         block_name_len |-> block_name_len,
                         block_data_len |-> block_data_len,
                         block_start_position |-> block_start_position,
                         block_end_position |-> block_end_position]
             /\ offset' = block_end_position
  /\ UNCHANGED <<pc, result>>
  /\ WalkFrame

\* image_processor.py:101-103, a read past the end of binary_data
WalkExcept ==
  /\ pc = "walk"
  /\ offset < query.chunk_end_position
  /\ \E sb \in ReadingsAt(db, offset) : ReadFails(offset, sb, query.data_size)
  /\ result' = None
  /\ pc' = "done"
  /\ UNCHANGED <<offset, conv>>
  /\ WalkFrame

\* image_processor.py:46 and 99, the end of the loop
WalkReturn ==
  /\ pc = "walk"
  /\ offset >= query.chunk_end_position
  /\ result' = [segments |-> conv.external_data]
  /\ pc' = "done"
  /\ UNCHANGED <<offset, conv>>
  /\ WalkFrame

WalkNext ==
  \/ WalkStep
  \/ WalkExcept
  \/ WalkReturn

SpecWalk == WalkInit /\ [][WalkNext]_vars

\* the loop is a sequential one: an iteration that can run does run
SpecWalkFair == SpecWalk /\ WF_vars(WalkNext)

-----------------------------------------------------------------------------
(* Properties of the walk.                                                 *)

\* an iteration of the loop has read a sub-block
HasRead == ~IsNone(conv.reading)

\* the bytes the name took in the iteration
NameTaken == conv.block_start_position - conv.name_offset

\* C21 as the specification states it: when the second size field is the
\* marker 0x0042006C the first field is the name length, the payload length
\* is 0 and the name length is not doubled; otherwise the first field is the
\* payload length, the second the name length in UTF-16 code units, and the
\* name takes twice that many bytes.
C21_FramingBranch ==
  HasRead =>
    IF conv.reading.size_02 = Marker
      THEN /\ conv.block_name_len = conv.reading.size_01
           /\ conv.block_data_len = 0
           /\ NameTaken = conv.block_name_len
      ELSE /\ conv.block_data_len = conv.reading.size_01
           /\ conv.block_name_len = conv.reading.size_02
           /\ NameTaken = 2 * conv.block_name_len

\* C21, amended: when the second size field is the marker 0x0042006C the
\* first field is the name length, the payload length is 0 and the name
\* begins where the second field does; otherwise the first field is the
\* payload length, the second the name length, and the name begins after
\* both.  In both framings the name length is in UTF-16 code units and the
\* name takes twice that many bytes, so that the walker reads the name of
\* every sub-block it arrives at whole.
C21_FramingBranchDoubled ==
  HasRead =>
    /\ IF conv.reading.size_02 = Marker
         THEN /\ conv.block_name_len = conv.reading.size_01
              /\ conv.block_data_len = 0
              /\ conv.name_offset = conv.block_start + FieldLen
         ELSE /\ conv.block_data_len = conv.reading.size_01
              /\ conv.block_name_len = conv.reading.size_02
              /\ conv.name_offset = conv.block_start + 2 * FieldLen
    /\ NameTaken = 2 * conv.block_name_len
    /\ conv.block_name_len < NameLimit =>
         /\ conv.block_name = conv.reading.name
         /\ NameTaken = 2 * NameUnits(conv.reading.name)

C21_Witness ==
  /\ HasRead
  /\ conv.reading.size_02 = Marker
  /\ conv.block_name = "BlockDataBeginChunk"
  /\ conv.block_data_len = 0
  /\ NameTaken = 38
  /\ Len(conv.visited) >= 2
  /\ db[conv.visited[1]].size_02 # Marker

\* the stream of a sub-block as block_len_2 delimits it
StreamOf(sb) == IF sb.block_len_2 < sb.stream_len THEN "corrupt" ELSE sb.stream

\* the BlockDataBeginChunk sub-blocks of the chunk from k on, each with its
\* payload: what the block_len_2 bytes of its stream inflate to (nothing
\* when they do not inflate), or uncompressed_size zero bytes for an absent
\* block
RECURSIVE BeginChunkPayloads(_, _)
BeginChunkPayloads(chunk, k) ==
  IF k > Len(chunk) THEN <<>>
  ELSE IF chunk[k].name = "BlockDataBeginChunk"
    THEN <<[len |-> ProcessBlockDataChunk([chunk[k] EXCEPT !.stream = StreamOf(chunk[k])]),
            src |-> IF chunk[k].exists_flag = 0 THEN 0 ELSE k]>>
           \o BeginChunkPayloads(chunk, k + 1)
  ELSE BeginChunkPayloads(chunk, k + 1)

\* block_len is the length of what is written after it (block_len_2, the
\* stream and the padding) in every present sub-block of the chunk
BlockLenIsExtent(chunk) ==
  \A k \in 1..Len(chunk) :
    chunk[k].exists_flag > 0 =>
      chunk[k].block_len = FieldLen + chunk[k].stream_len + chunk[k].pad

\* C22: the decoded block of a chunk is the concatenation, in file order, of
\* the payloads of exactly its BlockDataBeginChunk sub-blocks, one piece for
\* each, none twice and none out of order; BlockStatus, BlockCheckSum and
\* all other sub-blocks add no bytes.
C22_ConcatenationOfPayloads ==
  pc = "done" => result = [segments |-> BeginChunkPayloads(db, 1)]

\* the part of C22 that holds: the chunks in which every block_len is right
C22_WhenBlockLenIsExtent ==
  (pc = "done" /\ BlockLenIsExtent(db)) =>
    result = [segments |-> BeginChunkPayloads(db, 1)]

\* C23: the walk always ends.  Every iteration moves the offset strictly
\* forward: past the name and 24 bytes for BlockStatus and BlockCheckSum,
\* past the name and the declared payload length for other sub-blocks
\* without pixels, to the computed end, which is no earlier than the end of
\* the name, for BlockDataBeginChunk, whatever the bytes are.  The walk
\* stops when the offset has reached or passed the end of the chunk or a
\* read has failed, and not before.
C23_WalkTerminates ==
  /\ <>(pc = "done")
  /\ [][pc = "walk" =>
          \/ /\ pc' = "walk"
             /\ offset < query.chunk_end_position
             /\ offset' > offset
             /\ conv'.block_start = offset
             /\ conv'.block_start_position >= offset + FieldLen
             /\ offset' =
                  IF conv'.block_name = "BlockDataBeginChunk"
                    THEN offset'
                  ELSE IF conv'.block_name \in {"BlockStatus", "BlockCheckSum"}
                    THEN conv'.block_start_position + StatusLen
                  ELSE conv'.block_start_position + conv'.block_data_len
             /\ offset' >= conv'.block_start_position
          \/ /\ pc' = "done"
             /\ offset' = offset
             /\ IF IsNone(result')
                  THEN /\ offset < query.chunk_end_position
                       /\ \E sb \in ReadingsAt(db, offset) :
                            ReadFails(offset, sb, query.data_size)
                  ELSE offset >= query.chunk_end_position]_vars

C23_Witness ==
  /\ pc = "done"
  /\ ~IsNone(result)
  /\ Len(conv.visited) = 3
  /\ conv.visited[2] = 0
  /\ offset > query.chunk_end_position
  /\ db[1].block_len # db[1].block_len_2 + FieldLen

\* a present BlockDataBeginChunk sub-block of the chunk whose block_len_2
\* is not block_len - 4
Disagrees(sb) ==
  /\ sb.name = "BlockDataBeginChunk"
  /\ sb.exists_flag > 0
  /\ sb.block_len_2 # sb.block_len - FieldLen

\* C24: when the walker reads a present BlockDataBeginChunk sub-block whose
\* block_len_2 disagrees with block_len - 4, the decoder inflates exactly the
\* block_len_2 bytes after the two size fields, the disagreement does not
\* make the decode fail, and the walker goes on at the sub-block that
\* follows (or at the end of the chunk).
C24_DisagreementOnlyLogged ==
  (/\ HasRead
   /\ conv.visited[Len(conv.visited)] # 0
   /\ Disagrees(conv.reading)) =>
     LET k == conv.visited[Len(conv.visited)]
         piece == conv.external_data[Len(conv.external_data)]
     IN /\ piece = BeginChunkPayloads(db, k)[1]
        /\ conv.block_end_position = StartOf(db, k + 1)
        /\ pc = "done" => ~IsNone(result)

\* the part of C24 that holds: the bytes inflated are the block_len_2 bytes
\* after the size fields, and the walk goes on block_len - 4 bytes after
\* them
C24_WalkGoesByBlockLen ==
  (/\ HasRead
   /\ conv.visited[Len(conv.visited)] # 0
   /\ Disagrees(conv.reading)) =>
     LET k == conv.visited[Len(conv.visited)]
         piece == conv.external_data[Len(conv.external_data)]
     IN /\ piece = BeginChunkPayloads(db, k)[1]
        /\ conv.block_end_position =
             conv.block_start_position + PresentLen + conv.reading.block_len

-----------------------------------------------------------------------------
(* The number of worker processes of MultiprocessExecutor                  *)
(* (src/src/psdconvert/core/multiprocess_helper.py).  psutil gives the     *)
(* usages as floats with one decimal; they are counted here in tenths of a *)
(* percent.                                                                *)

DefaultMax == 4         \* max_processes_config.get(self.process_type, 4)

Tenths(percent) == percent * 10

\* the configuration, the readings of psutil and cpu_count() of one call
WorkerInputs ==
  [enabled : BOOLEAN, auto_adjust : BOOLEAN,
   configured_max : {0 - 1, 0, 1, 2, 3, DefaultMax, 8},
   memory_percent : {Tenths(50), Tenths(80), Tenths(80) + 1, Tenths(90), Tenths(90) + 1},
   cpu_usage_percent : {Tenths(10), Tenths(85), Tenths(85) + 1, Tenths(95), Tenths(95) + 1},
   cpu_count : {1, 2, 3, 4, 16}]

\* a count that is not raised to 1
OptimalProcessCountUnfloored(in) ==
  IF ~in.enabled THEN 1
  ELSE IF in.auto_adjust
    THEN IF in.memory_percent > Tenths(90) \/ in.cpu_usage_percent > Tenths(95)
           THEN 1
         ELSE IF in.memory_percent > Tenths(80) \/ in.cpu_usage_percent > Tenths(85)
           THEN Min(Min(2, in.configured_max), in.cpu_count - 1)
         ELSE Min(in.configured_max, in.cpu_count - 1)
  ELSE Min(in.configured_max, in.cpu_count)

\* multiprocess_helper.py:35-69, _get_optimal_process_count
OptimalProcessCount(in) ==
  IF ~in.enabled THEN 1
  ELSE IF in.auto_adjust
    THEN IF in.memory_percent > Tenths(90) \/ in.cpu_usage_percent > Tenths(95)
           THEN 1
         ELSE IF in.memory_percent > Tenths(80) \/ in.cpu_usage_percent > Tenths(85)
           THEN Max(1, Min(Min(2, in.configured_max), in.cpu_count - 1))
         ELSE Max(1, Min(in.configured_max, in.cpu_count - 1))
  ELSE Max(1, Min(in.configured_max, in.cpu_count))

WorkersInit ==
  /\ pc = "count"
  /\ query \in WorkerInputs
  /\ result = Unused
  /\ db = Unused /\ tables = Unused /\ conv = Unused
  /\ chunk_data_list = Unused /\ chunk_external_list = Unused
  /\ exc = NoError
  /\ file = Unused /\ offset = Unused /\ sqlite_binary_data = Unused
  /\ scan_error = NoError /\ parse_error = NoError /\ init_error = NoError
  /\ file_parser = Unused /\ sqlite_handler = Unused

\* multiprocess_helper.py:89, num_processes = self._get_optimal_process_count()
GetOptimalProcessCount ==
  /\ pc = "count"
  /\ result' = OptimalProcessCount(query)
  /\ pc' = "done"
  /\ UNCHANGED <<scanVars, db, tables, query, conv>>

WorkersNext == GetOptimalProcessCount

SpecWorkers == WorkersInit /\ [][WorkersNext]_vars

\* memory usage above 90% or CPU usage above 95%
ResourcesExhausted ==
  query.memory_percent > Tenths(90) \/ query.cpu_usage_percent > Tenths(95)

\* memory usage above 80% or CPU usage above 85%
ResourcesTight ==
  query.memory_percent > Tenths(80) \/ query.cpu_usage_percent > Tenths(85)

\* C26 as the specification states it: the worker count is at least 1; it
\* is exactly 1 when multiprocessing is disabled or when memory usage is
\* above 90% or CPU usage above 95%; otherwise, with auto-adjust on, it
\* exceeds neither the configured maximum nor the CPU count minus one
\* (but is 1 on a single CPU), and is at most 2 when memory usage is above
\* 80% or CPU usage above 85%.
C26_WorkerCount ==
  pc = "done" =>
    /\ result >= 1
    /\ (~query.enabled \/ ResourcesExhausted) => result = 1
    /\ (query.enabled /\ ~ResourcesExhausted /\ query.auto_adjust) =>
         /\ result <= query.configured_max
         /\ result <= query.cpu_count - 1 \/ (query.cpu_count = 1 /\ result = 1)
         /\ ResourcesTight => result <= 2

\* C26, amended: the worker count is at least 1; it is exactly 1 when
\* multiprocessing is disabled or, with auto-adjust on, when memory usage is
\* above 90% or CPU usage above 95%; otherwise, with auto-adjust on, it
\* exceeds neither the configured maximum (but is 1 when that maximum is
\* below 1) nor the CPU count minus one (but is 1 on a single CPU), and is
\* at most 2 when memory usage is above 80% or CPU usage above 85%.
C26_WorkerCountAutoAdjust ==
  pc = "done" =>
    /\ result >= 1
    /\ (~query.enabled \/ (query.auto_adjust /\ ResourcesExhausted)) => result = 1
    /\ (query.enabled /\ ~ResourcesExhausted /\ query.auto_adjust) =>
         /\ result <= query.configured_max \/ (query.configured_max < 1 /\ result = 1)
         /\ result <= query.cpu_count - 1 \/ (query.cpu_count = 1 /\ result = 1)
         /\ ResourcesTight => result <= 2

C26_Witness ==
  /\ pc = "done"
  /\ query.enabled /\ query.auto_adjust
  /\ ~ResourcesExhausted /\ ResourcesTight
  /\ query.configured_max = 8
  /\ query.cpu_count = 16
  /\ result = 2

-----------------------------------------------------------------------------
(* Looking a block up among the chunks of a scanned file: _parse_file      *)
(* keeps chunk_data_list[1:-2] and _get_external_data goes through what    *)
(* it kept.                                                                *)

MaxChunks == 4          \* most chunks of a scanned file

\* the descriptor the scan records of a chunk, with the id its bytes carry
ScannedChunk(type, external_id) ==
  [type |-> type, layer |-> 0, external_id |-> external_id, blocks |-> <<>>]

ScannedChunks ==
  {ScannedChunk(t, "") : t \in {"CHNKHead", "CHNKSQLi", "CHNKFoot"}}
  \cup {ScannedChunk("CHNKExta", ExtId(i)) : i \in 1..2}

\* file_parser.py:121-128, a scan that returns has met a CHNKSQLi chunk
ScannedLists ==
  {list \in UNION {[1..n -> ScannedChunks] : n \in 1..MaxChunks} :
     \E k \in 1..Len(list) : list[k].type = "CHNKSQLi"}

\* ClipFileParser.__init__ up to the return of _read_chunk_data
LookupInit ==
  /\ pc = "parse"
  /\ chunk_data_list \in ScannedLists
  /\ chunk_external_list = <<>>
  /\ query = Unused
  /\ result = Unused
  /\ exc = NoError
  /\ file = Unused /\ offset = Unused /\ sqlite_binary_data = Unused
  /\ scan_error = NoError /\ parse_error = NoError /\ init_error = NoError
  /\ file_parser = "parser" /\ sqlite_handler = "None"
  /\ db = Unused /\ tables = Unused /\ conv = Unused

\* file_parser.py:58
ExtractExternalList ==
  /\ pc = "parse"
  /\ chunk_external_list' = DropFirstAndLastTwo(chunk_data_list)
  /\ pc' = "call"
  /\ UNCHANGED <<file, offset, chunk_data_list, sqlite_binary_data, exc,
                 scan_error, parse_error, init_error, file_parser,
                 sqlite_handler, metaVars>>

\* converter.py:195-225, _get_external_data(external_id)
LookupExternalData ==
  /\ pc = "call"
  /\ \E i \in 1..2 :
       /\ query' = [external_id |-> ExtId(i)]
       /\ result' = GetExternalData(chunk_external_list, ExtId(i))
  /\ pc' = "done"
  /\ UNCHANGED <<scanVars, db, tables, conv>>

LookupNext == ExtractExternalList \/ LookupExternalData

SpecLookup == LookupInit /\ [][LookupNext]_vars

\* the chunks of type CHNKExta the scan found that carry external_id
ExtaChunksOf(external_id) ==
  {k \in 1..Len(chunk_data_list) :
     /\ chunk_data_list[k].type = "CHNKExta"
     /\ chunk_data_list[k].external_id = external_id}

\* C27: a block whose reference id is the id of some CHNKExta chunk the scan
\* found is decoded from such a chunk by the lookup, wherever the chunk sits
\* among the chunks of the file, the first place and the last two included.
C27_EveryExtaChunkExamined ==
  (pc = "done" /\ ExtaChunksOf(query.external_id) # {}) => ~IsNone(result)

\* what holds instead: a chunk that is neither the first nor one of the
\* last two of the file is found, and the three others never are
C27_ExaminedBetweenFirstAndLastTwo ==
  pc = "done" =>
    (~IsNone(result) <=>
       \E k \in ExtaChunksOf(query.external_id) :
          k > 1 /\ k < Len(chunk_data_list) - 1)

-----------------------------------------------------------------------------
(* The thumbnail record of a layer: the rows of table LayerThumbnail as    *)
(* _read_layer_thumbnails keeps them and _get_layer_thumbnail on them.     *)

MaxThumbnails == 2      \* most rows of table LayerThumbnail

\* sqlite_handler.py:161-168, a row: its own MainId, the canvas and the
\* layer it belongs to, and the size it records
ThumbnailRows ==
  {[main_id |-> m, canvas_id |-> c, layer_id |-> l,
    thumbnail_canvas_width |-> w, thumbnail_canvas_height |-> LayerHeight] :
     m \in Ids, c \in CanvasIds, l \in Ids, w \in LayerWidths}

\* the tables of a database: no two rows have the same MainId
ThumbnailLists ==
  {list \in UNION {[1..n -> ThumbnailRows] : n \in 0..MaxThumbnails} :
     \A j, k \in 1..Len(list) : list[j].main_id = list[k].main_id => j = k}

\* a converter whose handler has loaded the tables
ThumbnailInit ==
  /\ pc = "call"
  /\ \E list \in ThumbnailLists :
       tables = [NoTables EXCEPT !.layer_thumbnail_list = list]
  /\ db = Unused
  /\ query = Unused
  /\ result = Unused
  /\ conv = Unused
  /\ exc = NoError
  /\ file = Unused /\ offset = Unused /\ sqlite_binary_data = Unused
  /\ chunk_data_list = Unused /\ chunk_external_list = Unused
  /\ scan_error = NoError /\ parse_error = NoError /\ init_error = NoError
  /\ file_parser = "parser" /\ sqlite_handler = "handler"

\* converter.py:70-71, get_layer_data(canvas_id, layer_id) as far as the
\* thumbnail it goes by
LookupLayerThumbnail ==
  /\ pc = "call"
  /\ \E canvas_id \in CanvasIds, layer_id \in Ids :
       /\ query' = [canvas_id |-> canvas_id, layer_id |-> layer_id]
       /\ result' = GetLayerThumbnail(tables, canvas_id, layer_id)
  /\ pc' = "done"
  /\ UNCHANGED <<scanVars, db, tables, conv>>

SpecThumbnail == ThumbnailInit /\ [][LookupLayerThumbnail]_vars

\* the rows of LayerThumbnail that belong to the layer and canvas asked for
ThumbnailsOfLayer ==
  {k \in 1..Len(tables.layer_thumbnail_list) :
     /\ tables.layer_thumbnail_list[k].layer_id = query.layer_id
     /\ tables.layer_thumbnail_list[k].canvas_id = query.canvas_id}

\* C28: the size a layer is reconstructed with is that of a LayerThumbnail
\* record whose layer_id is the id of the layer and whose canvas_id is the
\* canvas; a layer that has no such record is skipped, and the record of
\* another layer is never used.
C28_ThumbnailOfTheLayer ==
  pc = "done" =>
    IF ThumbnailsOfLayer = {} THEN IsNone(result)
    ELSE /\ ~IsNone(result)
         /\ result.layer_id = query.layer_id
         /\ result.canvas_id = query.canvas_id

\* what holds instead: the record is chosen by its own MainId
C28_ThumbnailByMainId ==
  pc = "done" =>
    IF \E k \in 1..Len(tables.layer_thumbnail_list) :
         /\ tables.layer_thumbnail_list[k].main_id = query.layer_id
         /\ tables.layer_thumbnail_list[k].canvas_id = query.canvas_id
      THEN /\ ~IsNone(result)
           /\ result.main_id = query.layer_id
           /\ result.canvas_id = query.canvas_id
      ELSE IsNone(result)

-----------------------------------------------------------------------------
(* What convert_to_png returns.                                            *)

\* C29: convert_to_png lets no exception escape: whatever the converter and
\* the layers are (a NULL opacity or order value, no canvas record, a write
\* that fails), it returns False when something failed, and it returns True
\* only when the merged image was made and the write of the PNG reported
\* success.
C29_ReturnsFalseOnFailure ==
  pc = "done" =>
    /\ exc = NoError
    /\ result \in BOOLEAN
    /\ conv.error # "none" => result = FALSE
    /\ (query.merge_layers /\ ~conv.saved) => result = FALSE
    /\ result = TRUE => query.merge_layers /\ conv.merged /\ conv.saved

\* a conversion ended by the TypeError of a NULL opacity, after the sort
C29_Witness ==
  /\ pc = "done"
  /\ conv.error = "TypeError"
  /\ conv.sorted
  /\ conv.attempted # <<>>
  /\ result = FALSE

-----------------------------------------------------------------------------
(* Where a layer is put on the canvas.                                     *)

\* C30: a blended layer is placed at (max(0, (canvas_height - layer_height)
\* div 2), max(0, (canvas_width - layer_width) div 2)) and only its top-left
\* region that fits the canvas is used, so that a layer of the canvas size
\* is placed at (0, 0) and covers every pixel; a canvas pixel outside the
\* region keeps its four channels through the blend, and a layer pixel of
\* effective alpha 0 leaves the colour of the canvas pixel as it was.
C30_CentredPlacement ==
  (/\ pc = "blend"
   /\ conv.k >= 2
   /\ ~IsNone(conv.layers_data[conv.k - 1].bgra_image)) =>
    LET image == conv.layers_data[conv.k - 1].bgra_image
        layer_height == image.shape[1]
        layer_width == image.shape[2]
        top == Max(0, (query.canvas_height - layer_height) \div 2)
        left == Max(0, (query.canvas_width - layer_width) \div 2)
        rows == Min(layer_height, query.canvas_height - top)
        columns == Min(layer_width, query.canvas_width - left)
        Inside(p) == /\ top <= p[1] /\ p[1] < top + rows
                     /\ left <= p[2] /\ p[2] < left + columns
    IN /\ conv.placement.start_y = top /\ conv.placement.start_x = left
       /\ conv.placement.end_y = top + rows /\ conv.placement.end_x = left + columns
       /\ conv.placement.copy_height = rows /\ conv.placement.copy_width = columns
       /\ (layer_height = query.canvas_height /\ layer_width = query.canvas_width) =>
            /\ top = 0 /\ left = 0
            /\ \A p \in CanvasPixels : Inside(p)
       /\ \A p \in CanvasPixels :
            IF Inside(p)
              THEN /\ conv.merged_canvas[p] =
                        BlendPixel(conv.before[p], image.colour, image.alpha)
                   /\ image.alpha = 0 =>
                        conv.merged_canvas[p].bgr = conv.before[p].bgr
              ELSE conv.merged_canvas[p] = conv.before[p]

\* a layer twice as high as the canvas and half as wide has been blended
\* over an opaque layer of the canvas size: the centre took its colour, the
\* first pixel kept what it had
C30_Witness ==
  /\ pc = "blend"
  /\ conv.k = 3
  /\ db[1].image = [colour |-> <<0, 0, 255>>, alpha |-> 255,
                    shape |-> <<CanvasHeight, CanvasWidth>>]
  /\ db[2].image = [colour |-> <<255, 0, 0>>, alpha |-> 255,
                    shape |-> <<CanvasHeight + CanvasHeight, CanvasWidth \div 2>>]
  /\ db[2].opacity = 255
  /\ conv.placement.start_y = 0
  /\ conv.placement.copy_height = CanvasHeight
  /\ conv.merged_canvas[<<0, 0>>] = [bgr |-> <<0, 0, 255>>, a |-> 255]
  /\ conv.merged_canvas[<<CanvasHeight \div 2, CanvasWidth \div 2>>].bgr = <<255, 0, 0>>

====
